---- MODULE Spec2Model ----
(***************************************************************************)
(* State-machine model of the v6 ingestion pipeline: the Round Reconciler  *)
(* (HistoricalCrawler), the Claim Anomaly Detector                          *)
(* (V6SingleRoundClaimDetector), the Live Listener (RealtimeListener) and   *)
(* the datastore access of ConnectionManager, over the tables of            *)
(* schema.sql.                                                              *)
(*                                                                          *)
(* An async method is cut at its await points where another task can        *)
(* interleave: one action per datastore round trip or RPC phase.            *)
(***************************************************************************)
EXTENDS Integers, Sequences, FiniteSets, Bags, TLC

\* ---------------------------------------------------------------- bounds
\* Longest time an underlying RPC call is in flight, in ms.
MaxOpTime == 1
\* Epochs 1..MaxEpoch are the ones a backfill run walks (currentEpoch - 2 down to 1).
MaxEpoch == 2
\* Claim events found in the block range of one epoch: 0..MaxClaims.
MaxClaims == 4
\* Budget of environment faults (failed RPC call, failed datastore call, process restart).
MaxFaults == 3
\* The same budget where the Live Listener runs beside the reconciler.
MaxLiveFaults == 2
\* Longest claimData handed to the detector when it is exercised on its own.
MaxDetClaims == 5
\* Detector runs for one claim-epoch when it is exercised on its own.
MaxDetRuns == 2
MaxWsOpens == 3
MaxWsRestarts == 1
MaxWsTicks == 12
MaxV4Epochs == 2
MaxV4Starts == 2
MaxHead == 4
MaxTimestamp == 6
MaxPushClients == 3
MaxBroadcasts == 2
\* Budget of environment faults of one legacy processEpochData behaviour.
MaxV4EpochFaults == 2
\* WebSocketProviders one ConnectionManager creates in a behaviour.
MaxCmSockets == 4
\* Statements of one executeTransaction call.
MaxStatements == 2

\* ------------------------------------------------------ program constants
\* handleEpochFailure: attempts >= 3 records the epoch in failed_epoch.
FailureLimit == 3
\* shouldSkipEpoch: failure_count >= 3.
SkipThreshold == 3
\* V6SingleRoundClaimDetector.suspiciousThreshold.
suspiciousThreshold == 3

\* HistoricalCrawler constructor: maxRequestsPerSecond, requestDelay = ceil(1000 / it).
maxRequestsPerSecond == 100
requestDelay == (1000 + maxRequestsPerSecond - 1) \div maxRequestsPerSecond
\* retryRequest(operation, operationName, retries = 3)
retries == 3
\* retryRequest: delay = 2000 * attempt
BackoffUnit == 2000
\* getEventsInRange: the calls Promise.all runs side by side.
ConcurrentQueries == 3
MAX_RECONNECT_ATTEMPTS == 5
RECONNECT_DELAY == 10000
HandshakeTimeout == 10000
\* startServer: historicalCrawler.initialize() and realtimeListener.initialize() each
\* call ConnectionManager.initialize().
InitializeCalls == 2

Epochs == 1..MaxEpoch

VARIABLES
    \* the chain (fixed during a behaviour)
    chainBetDirs,       \* directions for which a bet event lies in every epoch's block range
    chainClaimCount,    \* number of Claim events in every epoch's block range
    chainClosedUpTo,    \* rounds 1..chainClosedUpTo have closeTimestamp # 0
    chainPriceShift,    \* which price pattern the oracle has produced
    chainSharedTx,      \* TRUE: the Claim events of one range were emitted by one transaction
    chainStrayBet,      \* TRUE: the last block of a range holds a bet of the next epoch
    \* the datastore
    round,              \* set of rows (PRIMARY KEY epoch)
    hisbet,             \* bag of rows
    realbet,            \* bag of rows
    claim,              \* bag of rows
    failed_epoch,       \* epoch -> failure_count, 0 = no row
    multi_round_claimer,\* bag of rows
    uniqueClaimWallet,  \* constraint unique_claim_wallet exists (fix_constraint.js)
    dbConnected,        \* ConnectionManager.status.dbConnected
    \* HistoricalCrawler
    pc,                 \* position of the backfill task
    isProcessingHistory,
    shouldStopHistory,
    checkEpoch,
    failedAttempts,     \* Map epoch -> attempts, 0 = no entry
    inTry,              \* handleEpochFailure was called from inside the try block (line 256)
    \* RealtimeListener
    processedBets,      \* keys of the Map processedBets
    \* history variables
    faultBudget,        \* environment faults still to come
    failCount,          \* epoch -> number of processEpochData calls that went to handleEpochFailure
    att,                \* what the current / last processEpochData call has done
    dupDelivered,       \* some bet event was delivered again on the live path
    walletBetCounts,    \* suspiciousMonitor.walletBetCounts
    broadcasts,         \* the messages handed to broadcastToClients by this process
    \* V6SingleRoundClaimDetector called on its own
    detClaims,          \* the claimData argument
    detReported,        \* the list checkSingleRoundMultiClaims returned
    detOutcome,         \* "off", "ready", then how recordSuspiciousWallets ended
    detRuns,            \* detector calls made so far for the claim-epoch
    \* HistoricalCrawler.retryRequest / rateLimit followed call by call
    rpcNow,             \* Date.now() in ms
    lastRequestTime,    \* this.lastRequestTime
    rpcTask,            \* the retryRequest calls: position, attempt, timer, outcomes so far
    rpcStarts,          \* start times of the latest two underlying RPC calls
    wsProc,             \* startServer: "init1", "ready1", "init2", "running", "exited"
    wsNow,              \* time since the process started, in ms
    wsInitDue,          \* per socket chain: when the handshake promise times out
    wsSocket,           \* per socket chain: "none", "connecting", "open", "closed"
    wsInit,             \* per socket chain: the handshake promise of its latest socket
    wsConnected,        \* status.wsConnected
    reconnectAttempts,  \* status.reconnectAttempts
    wsTimer,            \* per socket chain: delay of its pending reconnect timer, or 0
    wsSinceOpen,        \* history: reconnects made since the last open
    wsGaveUp,           \* history: handleWebSocketReconnect has returned at its cap
    wsLateArms,         \* history: reconnect timers armed after that return
    wsOpens,            \* number of opens so far
    wsRestarts,         \* number of process restarts so far
    v4IsProcessingHistory,  \* UnifiedDataCrawler.isProcessingHistory
    v4ShouldStopHistory,    \* UnifiedDataCrawler.shouldStopHistory
    v4Pc,               \* position of UnifiedDataCrawler.processHistoryData
    v4Stage,            \* position of the processEpochData call in flight, or "none"
    v4CheckEpoch,       \* checkEpoch of the backfill loop
    v4StartTimer,       \* pending timers of startHistoryBackfill
    v4Starts,           \* number of startHistoryBackfill calls so far
    v4Stop,             \* per caller: position of its stopHistoryBackfill call
    v4Begun,            \* history: epochs whose processEpochData has been called
    v4Done,             \* history: epochs whose processEpochData has returned or thrown
    v4StopMidEpoch,     \* history: a stop was requested while an epoch was in flight
    fbTimestamps,       \* the chain of a block search: timestamp of block 1..head
    fbTarget,           \* targetTimestamp
    fbResult,           \* what findBlockByTimestamp returned, 0 before the call
    fbLegacyResult,     \* what the legacy findBlockByTimestamp returned
    pushClients,        \* DirectPushServer.clients (RealtimeListener.connectedClients)
    pushState,          \* per connection: "absent" or its readyState
    pushReceived,       \* per connection: number of messages sent to it
    pushSeq,            \* number of broadcasts so far
    pushLastBy,         \* which broadcast ran last: "direct", "trunk" or "none"
    readPc,             \* position of the getSmartRoundData call: "idle" or "step2"
    readEpoch,          \* its epoch argument
    readResult,         \* what the latest call returned, and what the store held for it
    v4Latest,           \* per timer of processLatestData: position of the run it started
    \* the legacy crawler's processEpochData over the legacy tables (DatabaseV4)
    rounds,             \* set of epochs with a row in rounds
    hisbets,            \* set of rows (UNIQUE tx_hash)
    claims,             \* set of rows (UNIQUE tx_hash)
    failed_epochs,      \* epoch -> failure_count, 0 = no row
    v4FailedAttempts,   \* UnifiedDataCrawler.failedAttempts, 0 = no entry
    v4ePc,              \* position of the legacy processEpochData call
    v4eAtt,             \* the current or the last legacy processEpochData call
    v4eFaults,          \* environment faults left for the legacy call
    \* the life cycle of the shared ConnectionManager
    cmInitCalls,        \* initialize() calls completed
    cmIntervals,        \* the setInterval timers of startHealthCheck that are active
    healthCheckInterval,\* ConnectionManager.healthCheckInterval, 0 = null
    cmSockets,          \* the WebSocketProviders created so far: state of each socket
    cmWsProvider,       \* connections.wsProvider: index into cmSockets, 0 = null
    cmReconnectTimers,  \* pending setTimeout callbacks of handleWebSocketReconnect
    cmReconnectAttempts,\* status.reconnectAttempts
    cmDbPool,           \* connections.dbPool: "none" (null) or "open"
    cmDbConnected,      \* status.dbConnected
    cmDbReachable,      \* the database accepts connections
    cmCheckedOut,       \* pooled clients checked out and not released
    cmListenerBound,    \* socket the listener's contract subscriptions were made on, 0 = none
    cmClosed,           \* close() has completed
    cmLast,             \* the last operation and what it observed
    \* the Live Listener's handler and its SuspiciousWalletMonitor, step by step
    recentBets,         \* suspiciousMonitor.recentBets: wallet -> timestamps
    monNow,             \* Date.now()
    monHistory,         \* wallet -> the times of all checkSuspiciousWallet calls
    monLast,            \* the last checkSuspiciousWallet call and its verdict
    lsSeen,             \* processedBets: the keys set so far
    lsObserved,         \* the (epoch, wallet) pairs of the bet events delivered so far
    lsInFlight,         \* INSERT INTO realbet statements issued and not finished
    lsRealbet,          \* rows of realbet written by the handler
    lsPublished,        \* the new_bet_data messages handed to broadcastToClients
    lsLast,             \* the last bet event delivered and what the handler did with it
    \* one findBlockByTimestamp call, fetch by fetch
    bsLegacy,           \* TRUE: the legacy crawler's search
    bsHead,             \* the answer of getBlockNumber
    bsTarget,           \* targetTimestamp
    bsPc,               \* "idle", "loop", "done", "thrown"
    bsLow,
    bsHigh,
    bsClosest,          \* closestBlock
    bsClosestDiff,      \* closestDiff of the legacy search
    bsSeen,             \* the midpoints fetched so far, each with the header answered
    bsResult            \* <<block>> returned, <<>> for null or nothing yet

vars == <<chainBetDirs, chainClaimCount, chainClosedUpTo, chainSharedTx, chainPriceShift, chainStrayBet,
          round, hisbet, realbet, claim, failed_epoch, multi_round_claimer,
          uniqueClaimWallet, dbConnected,
          pc, isProcessingHistory, shouldStopHistory, checkEpoch, failedAttempts, inTry,
          processedBets, faultBudget, failCount, att, dupDelivered,
          walletBetCounts, broadcasts,
          detClaims, detReported, detOutcome, detRuns,
          rpcNow, lastRequestTime, rpcTask, rpcStarts,
          wsProc, wsNow, wsSocket, wsInit, wsInitDue, wsConnected, reconnectAttempts, wsTimer,
          wsSinceOpen, wsGaveUp, wsLateArms, wsOpens, wsRestarts,
          v4IsProcessingHistory, v4ShouldStopHistory, v4Pc, v4Stage, v4CheckEpoch,
          v4StartTimer, v4Starts, v4Stop, v4Begun, v4Done, v4StopMidEpoch,
          fbTimestamps, fbTarget, fbResult, fbLegacyResult,
          pushClients, pushState, pushReceived, pushSeq, pushLastBy,
          readPc, readEpoch, readResult, v4Latest,
          rounds, hisbets, claims, failed_epochs, v4FailedAttempts, v4ePc, v4eAtt, v4eFaults,
          cmInitCalls, cmIntervals, healthCheckInterval, cmSockets, cmWsProvider,
          cmReconnectTimers, cmReconnectAttempts, cmDbPool, cmDbConnected, cmDbReachable,
          cmCheckedOut, cmListenerBound, cmClosed, cmLast,
          recentBets, monNow, monHistory, monLast, lsSeen, lsObserved, lsInFlight, lsRealbet,
          lsPublished, lsLast,
          bsLegacy, bsHead, bsTarget, bsPc, bsLow, bsHigh, bsClosest, bsClosestDiff, bsSeen,
          bsResult>>

chainVars == <<chainBetDirs, chainClaimCount, chainClosedUpTo, chainSharedTx, chainPriceShift, chainStrayBet>>
tableVars == <<round, hisbet, realbet, claim, failed_epoch, multi_round_claimer>>
detVars == <<detClaims, detReported, detOutcome, detRuns>>
rpcVars == <<rpcNow, lastRequestTime, rpcTask, rpcStarts>>
\* The variables of the parts that are followed on their own.
wsVars == <<wsProc, wsNow, wsSocket, wsInit, wsInitDue, wsConnected, reconnectAttempts, wsTimer,
            wsSinceOpen, wsGaveUp, wsLateArms, wsOpens, wsRestarts>>
v4Vars == <<v4IsProcessingHistory, v4ShouldStopHistory, v4Pc, v4Stage, v4CheckEpoch,
            v4StartTimer, v4Starts, v4Stop, v4Begun, v4Done, v4StopMidEpoch>>
fbVars == <<fbTimestamps, fbTarget, fbResult, fbLegacyResult>>
pushVars == <<pushClients, pushState, pushReceived, pushSeq, pushLastBy>>
readVars == <<readPc, readEpoch, readResult>>
latestVars == <<v4Latest>>
v4eVars == <<rounds, hisbets, claims, failed_epochs, v4FailedAttempts, v4ePc, v4eAtt, v4eFaults>>
cmVars == <<cmInitCalls, cmIntervals, healthCheckInterval, cmSockets, cmWsProvider,
            cmReconnectTimers, cmReconnectAttempts, cmDbPool, cmDbConnected, cmDbReachable,
            cmCheckedOut, cmListenerBound, cmClosed, cmLast>>
monVars == <<recentBets, monNow, monHistory, monLast>>
lsVars == <<lsSeen, lsObserved, lsInFlight, lsRealbet, lsPublished, lsLast>>
bsVars == <<bsLegacy, bsHead, bsTarget, bsPc, bsLow, bsHigh, bsClosest, bsClosestDiff, bsSeen,
            bsResult>>
sideVars == <<rpcVars, wsVars, v4Vars, fbVars, pushVars, readVars, latestVars, v4eVars, cmVars,
              monVars, lsVars, bsVars>>
\* The variables of the reconciler, the listener and the datastore.
mainVars == <<chainBetDirs, chainClaimCount, chainClosedUpTo, chainSharedTx, chainPriceShift, chainStrayBet,
              round, hisbet, realbet, claim, failed_epoch, multi_round_claimer,
              uniqueClaimWallet, dbConnected,
              pc, isProcessingHistory, shouldStopHistory, checkEpoch, failedAttempts, inTry,
              processedBets, faultBudget, failCount, att, dupDelivered,
              walletBetCounts, broadcasts>>
listenVars == <<walletBetCounts, broadcasts>>

\* What a step of one part leaves alone outside that part.
notRpc == <<mainVars, detVars, wsVars, v4Vars, fbVars, pushVars, readVars, latestVars, v4eVars, cmVars,
    monVars, lsVars, bsVars>>
notWs == <<mainVars, detVars, rpcVars, v4Vars, fbVars, pushVars, readVars, latestVars, v4eVars, cmVars,
    monVars, lsVars, bsVars>>
notV4 == <<mainVars, detVars, rpcVars, wsVars, fbVars, pushVars, readVars, latestVars, v4eVars, cmVars,
    monVars, lsVars, bsVars>>
notFb == <<mainVars, detVars, rpcVars, wsVars, v4Vars, pushVars, readVars, latestVars, v4eVars, cmVars,
    monVars, lsVars, bsVars>>
notPush == <<mainVars, detVars, rpcVars, wsVars, v4Vars, fbVars, readVars, latestVars, v4eVars, cmVars,
    monVars, lsVars, bsVars>>
notRead == <<mainVars, detVars, rpcVars, wsVars, v4Vars, fbVars, pushVars, latestVars, v4eVars, cmVars,
    monVars, lsVars, bsVars>>
notLatest == <<mainVars, detVars, rpcVars, wsVars, v4Vars, fbVars, pushVars, readVars, v4eVars, cmVars,
    monVars, lsVars, bsVars>>
notV4e == <<mainVars, detVars, rpcVars, wsVars, v4Vars, fbVars, pushVars, readVars, latestVars, cmVars,
    monVars, lsVars, bsVars>>
notCm == <<mainVars, detVars, rpcVars, wsVars, v4Vars, fbVars, pushVars, readVars, latestVars, v4eVars,
    monVars, lsVars, bsVars>>
notMon == <<mainVars, detVars, rpcVars, wsVars, v4Vars, fbVars, pushVars, readVars, latestVars, v4eVars,
    cmVars, bsVars>>
notBs == <<mainVars, detVars, rpcVars, wsVars, v4Vars, fbVars, pushVars, readVars, latestVars, v4eVars,
    cmVars, monVars, lsVars>>

\* ------------------------------------------------------------- utilities
\* String.prototype.toLowerCase on the wallet addresses of the model.
ToLowerCase(s) == CASE s = "W1" -> "w1" [] s = "W2" -> "w2" [] OTHER -> s

BagAdd(B, x) == B (+) SetToBag({x})
BagKeep(B, Keep(_)) == [x \in {y \in DOMAIN B : Keep(y)} |-> B[x]]
BagSize(B) == BagCardinality(B)

RECURSIVE SeqToSet(_)
SeqToSet(s) == IF s = <<>> THEN {} ELSE {Head(s)} \cup SeqToSet(Tail(s))

\* ------------------------------------------------------------- the chain
\* contract.rounds(e): the round struct.  Prices follow fixed patterns that between
\* them cover close < lock, close = lock and close > lock.
ChainRound(e) ==
    [epoch |-> e,
     startTimestamp |-> 100 * e,
     closeTimestamp |-> IF e <= chainClosedUpTo THEN 100 * e + 60 ELSE 0,
     lockPrice |-> 2,
     closePrice |-> ((e + chainPriceShift) % 3) + 1]

\* contract.currentEpoch()
ChainCurrentEpoch == MaxEpoch + 2

\* queryFilter(BetBull / BetBear, fromBlock, toBlock) for the block range of epoch e.
\* With chainStrayBet the block the range of epoch e ends with, which is the block the
\* range of epoch e + 1 begins with, holds a BetBull event of epoch e + 1: the filter
\* selects by block, not by epoch.
BoundaryBet(e) ==
    [sender |-> "W1", epoch |-> e, transactionHash |-> [kind |-> "bet", epoch |-> e, n |-> 3]]

ChainBetBullEvents(e) ==
    (IF "UP" \in chainBetDirs
     THEN <<[sender |-> "W1", epoch |-> e, transactionHash |-> [kind |-> "bet", epoch |-> e, n |-> 1]]>>
     ELSE <<>>)
    \o (IF chainStrayBet THEN <<BoundaryBet(e), BoundaryBet(e + 1)>> ELSE <<>>)

ChainBetBearEvents(e) ==
    IF "DOWN" \in chainBetDirs
    THEN <<[sender |-> "W2", epoch |-> e, transactionHash |-> [kind |-> "bet", epoch |-> e, n |-> 2]]>>
    ELSE <<>>

\* queryFilter(Claim, fromBlock, toBlock): claim k of the range pays out bet-epoch k.
\* claim(uint256[] epochs) emits one Claim event per epoch in ONE transaction
\* (chainSharedTx), separate claim calls give separate transactions.
ChainClaimEvents(e) ==
    [k \in 1..chainClaimCount |->
        [sender |-> "W1", epoch |-> k, amount |-> 1,
         transactionHash |-> [kind |-> "claim", epoch |-> e, n |-> IF chainSharedTx THEN 0 ELSE k]]]

\* ------------------------------------------------- HistoricalCrawler, pure parts
\* getRoundData: <<>> is null (round not closed), otherwise the one row.
\* A comparison that counts a tie as a rise.
PriceUpOrTie(closePrice, lockPrice) == closePrice >= lockPrice

\* Number(round.closePrice) > Number(round.lockPrice)
PriceUp(closePrice, lockPrice) == closePrice > lockPrice

\* A getRoundData without the closeTimestamp test of line 146.
getRoundDataUnclosedToo(e) ==
    LET r == ChainRound(e) IN
    <<[epoch |-> r.epoch,
       lock_price |-> r.lockPrice,
       close_price |-> r.closePrice,
       result |-> IF PriceUp(r.closePrice, r.lockPrice) THEN "UP" ELSE "DOWN"]>>

getRoundData(e) ==
    LET r == ChainRound(e) IN
    IF r.closeTimestamp = 0 THEN <<>>
    ELSE <<[epoch |-> r.epoch,
            lock_price |-> r.lockPrice,
            close_price |-> r.closePrice,
            result |-> IF PriceUp(r.closePrice, r.lockPrice) THEN "UP" ELSE "DOWN"]>>

\* getNextEpochStartTime: 0 is null.
getNextEpochStartTime(nextEpoch) == ChainRound(nextEpoch).startTimestamp

processBetEvents(events, direction, roundResult) ==
    [i \in 1..Len(events) |->
        [epoch |-> events[i].epoch,
         wallet_address |-> ToLowerCase(events[i].sender),
         bet_direction |-> direction,
         result |-> IF direction = roundResult THEN "WIN" ELSE "LOSS",
         tx_hash |-> events[i].transactionHash]]

processClaimEvents(events, processingEpoch) ==
    [i \in 1..Len(events) |->
        [epoch |-> processingEpoch,
         wallet_address |-> ToLowerCase(events[i].sender),
         claim_amount |-> events[i].amount,
         bet_epoch |-> events[i].epoch,
         tx_hash |-> events[i].transactionHash]]

\* What processEpochData(e) holds at line 242, from the chain.
RoundDataOf(e) == getRoundData(e)[1]
BetDataOf(e) ==
    processBetEvents(ChainBetBullEvents(e), "UP", RoundDataOf(e).result)
    \o processBetEvents(ChainBetBearEvents(e), "DOWN", RoundDataOf(e).result)
ClaimDataOf(e) == processClaimEvents(ChainClaimEvents(e), e)

\* ------------------------------------------------------------ statements
\* INSERT INTO round ... ON CONFLICT (epoch) DO NOTHING
InsertRound(tbl, row) ==
    IF \E r \in tbl : r.epoch = row.epoch THEN tbl ELSE tbl \cup {row}

\* INSERT INTO hisbet ... ON CONFLICT (tx_hash) DO NOTHING
InsertHisbet(tbl, row) ==
    IF \E r \in DOMAIN tbl : r.tx_hash = row.tx_hash THEN tbl ELSE BagAdd(tbl, row)

\* The claim insert without its ON CONFLICT clause on a table without the
\* UNIQUE constraint: what the idempotence of the commit rests on.
InsertClaimPlain(tbl, row) == BagAdd(tbl, row)

\* INSERT INTO claim ... ON CONFLICT (tx_hash) DO NOTHING
InsertClaim(tbl, row) ==
    IF \E r \in DOMAIN tbl : r.tx_hash = row.tx_hash THEN tbl ELSE BagAdd(tbl, row)

\* The statement list saveCompleteRoundData builds: round, then bets, then claims.
SaveQueries(roundData, betData, claimData) ==
    <<[table |-> "round", row |-> roundData]>>
    \o [i \in 1..Len(betData) |-> [table |-> "hisbet", row |-> betData[i]]]
    \o [i \in 1..Len(claimData) |-> [table |-> "claim", row |-> claimData[i]]]

ApplyQuery(db, q) ==
    CASE q.table = "round"  -> [db EXCEPT !.round = InsertRound(@, q.row)]
      [] q.table = "hisbet" -> [db EXCEPT !.hisbet = InsertHisbet(@, q.row)]
      [] q.table = "claim"  -> [db EXCEPT !.claim = InsertClaim(@, q.row)]

RECURSIVE RunQueries(_, _, _)
RunQueries(db, queries, n) ==
    IF n = 0 THEN db ELSE ApplyQuery(RunQueries(db, queries, n - 1), queries[n])

\* executeTransaction without BEGIN / ROLLBACK: the statements before the throwing
\* one stay.
ExecuteTransactionNoRollback(db, queries, failAt) ==
    IF failAt = 0
    THEN [db |-> RunQueries(db, queries, Len(queries)), ok |-> TRUE]
    ELSE [db |-> RunQueries(db, queries, IF failAt > Len(queries) THEN Len(queries) ELSE failAt - 1),
          ok |-> FALSE]

\* ConnectionManager.executeTransaction: BEGIN, the statements in order, COMMIT;
\* a throwing statement (failAt = its index, Len + 1 = COMMIT itself) rolls back
\* and rethrows.  failAt = 0: nothing throws.
ExecuteTransaction(db, queries, failAt) ==
    IF failAt = 0
    THEN [db |-> RunQueries(db, queries, Len(queries)), ok |-> TRUE]
    ELSE [db |-> db, ok |-> FALSE]

\* ------------------------------------------- V6SingleRoundClaimDetector
RECURSIVE Distinct(_)
\* The elements of a sequence in order of first appearance (a JS Set / object keys).
Distinct(s) ==
    IF s = <<>> THEN <<>>
    ELSE LET init == Distinct(SubSeq(s, 1, Len(s) - 1))
             last == s[Len(s)]
         IN IF last \in SeqToSet(init) THEN init ELSE Append(init, last)

RECURSIVE SumAmounts(_)
SumAmounts(s) == IF s = <<>> THEN 0 ELSE Head(s).claim_amount + SumAmounts(Tail(s))

ClaimsOfWallet(claimData, w) ==
    SelectSeq(claimData, LAMBDA c : ToLowerCase(c.wallet_address) = w)

\* walletStats[w]
WalletStats(claimData, w) ==
    LET mine == ClaimsOfWallet(claimData, w) IN
    [betEpochs |-> Distinct([i \in 1..Len(mine) |-> mine[i].bet_epoch]),
     totalAmount |-> SumAmounts(mine),
     claimCount |-> Len(mine)]

\* The list checkSingleRoundMultiClaims builds and returns.
SuspiciousWallets(epoch, claimData) ==
    LET wallets == Distinct([i \in 1..Len(claimData) |-> ToLowerCase(claimData[i].wallet_address)])
        entry(w) == LET st == WalletStats(claimData, w) IN
                    [wallet_address |-> w, epoch |-> epoch,
                     claim_count |-> Len(st.betEpochs),
                     total_amount |-> st.totalAmount,
                     betEpochs |-> st.betEpochs]
        all == [i \in 1..Len(wallets) |-> entry(wallets[i])]
    IN SelectSeq(all, LAMBDA s : s.claim_count > suspiciousThreshold)

\* INSERT INTO multi_round_claimer ... ON CONFLICT (claim_epoch, wallet_address) DO UPDATE
UpsertClaimer(tbl, s) ==
    LET row == [claim_epoch |-> s.epoch, wallet_address |-> s.wallet_address,
                rounds_claimed |-> s.claim_count, total_amount |-> s.total_amount,
                bet_epochs |-> s.betEpochs]
        same(r) == r.claim_epoch = row.claim_epoch /\ r.wallet_address = row.wallet_address
        hits == BagSize(BagKeep(tbl, same))
    IN IF hits = 0 THEN BagAdd(tbl, row)
       ELSE BagKeep(tbl, LAMBDA r : ~same(r)) (+) [x \in {row} |-> hits]

RECURSIVE RecordFirst(_, _, _)
\* recordSuspiciousWallets: the upserts in list order; the first n succeed
\* (a throwing upsert ends the loop in the catch).
RecordFirst(tbl, list, n) ==
    IF n = 0 THEN tbl ELSE UpsertClaimer(RecordFirst(tbl, list, n - 1), list[n])

\* ----------------------------------------------------------- environment
\* How a datastore round trip through ConnectionManager can end:
\*   ok          the statement ran
\*   queryFail   client.query threw (the connection is released, dbConnected stays)
\*   connectFail pool.connect threw: getDatabaseConnection sets dbConnected = false
\*   down        dbConnected is already false: getDatabaseConnection throws at once
DbOutcomes ==
    IF ~dbConnected THEN {"down"}
    ELSE {"ok"} \cup (IF faultBudget > 0 THEN {"queryFail", "connectFail"} ELSE {})

\* How an RPC phase can end: ok, or an error that survived retryRequest's retries.
RpcOutcomes == {"ok"} \cup (IF faultBudget > 0 THEN {"rpcFail"} ELSE {})

FaultCost(o) == IF o \in {"queryFail", "connectFail", "rpcFail"} THEN 1 ELSE 0

DbAfter(o) == IF o = "connectFail" THEN FALSE ELSE dbConnected

NoAttempt ==
    [epoch |-> 0, priorFailures |-> 0, rpc |-> FALSE, rpcFailed |-> FALSE, committed |-> FALSE,
     txFailAt |-> 0, again |-> FALSE, prov |-> {}, provLeft |-> {}, detected |-> FALSE, failed |-> FALSE, result |-> "none"]

\* ------------------------------------------------------------------ Init
\* The process right after construction, over an empty datastore.
InitProcess ==
    /\ round = {}
    /\ hisbet = EmptyBag
    /\ realbet = EmptyBag
    /\ claim = EmptyBag
    /\ failed_epoch = [e \in Epochs |-> 0]
    /\ multi_round_claimer = EmptyBag
    /\ dbConnected = TRUE
    /\ pc = "idle"
    /\ isProcessingHistory = FALSE
    /\ shouldStopHistory = FALSE
    /\ checkEpoch = 0
    /\ failedAttempts = [e \in Epochs |-> 0]
    /\ inTry = FALSE
    /\ processedBets = {}
    /\ failCount = [e \in Epochs |-> 0]
    /\ att = NoAttempt
    /\ dupDelivered = FALSE
    /\ walletBetCounts = [w \in {} |-> 0]
    /\ broadcasts = EmptyBag

\* No retryRequest call is followed step by step.
RpcOff ==
    /\ rpcNow = 0
    /\ lastRequestTime = 0
    /\ rpcTask = <<>>
    /\ rpcStarts = <<>>

\* The streaming connection is not followed.
WsOff ==
    /\ wsProc = "off"
    /\ wsNow = 0
    /\ wsSocket = <<>>
    /\ wsInit = <<>>
    /\ wsInitDue = <<>>
    /\ wsConnected = FALSE
    /\ reconnectAttempts = 0
    /\ wsTimer = <<>>
    /\ wsSinceOpen = 0
    /\ wsGaveUp = FALSE
    /\ wsLateArms = 0
    /\ wsOpens = 0
    /\ wsRestarts = 0

\* The legacy crawler's backfill is not followed.
V4Off ==
    /\ v4IsProcessingHistory = FALSE
    /\ v4ShouldStopHistory = FALSE
    /\ v4Pc = "off"
    /\ v4Stage = "none"
    /\ v4CheckEpoch = 0
    /\ v4StartTimer = 0
    /\ v4Starts = 0
    /\ v4Stop = <<>>
    /\ v4Begun = {}
    /\ v4Done = {}
    /\ v4StopMidEpoch = FALSE

\* The detector is not called outside processEpochData.
DetectorOff ==
    /\ detClaims = <<>>
    /\ detReported = <<>>
    /\ detOutcome = "off"
    /\ detRuns = 0

\* No block search is followed.
FbOff ==
    /\ fbTimestamps = <<>>
    /\ fbTarget = 0
    /\ fbResult = 0
    /\ fbLegacyResult = 0

\* No push server is followed.
PushOff ==
    /\ pushClients = {}
    /\ pushState = <<>>
    /\ pushReceived = <<>>
    /\ pushSeq = 0
    /\ pushLastBy = "none"

\* No reader is followed.
NoRead == [epoch |-> 0, source |-> "none", committed |-> FALSE]

ReadOff ==
    /\ readPc = "off"
    /\ readEpoch = 0
    /\ readResult = NoRead

\* The legacy latest-rounds task is not followed.
LatestOff == v4Latest = <<>>

\* The legacy processEpochData is not followed.
NoV4Attempt ==
    [epoch |-> 0, rpcFailed |-> {}, roundData |-> <<>>, betData |-> <<>>, claimData |-> <<>>,
     counted |-> FALSE, committed |-> FALSE, deleted |-> FALSE, result |-> "none"]

V4eOff ==
    /\ rounds = {}
    /\ hisbets = {}
    /\ claims = {}
    /\ failed_epochs = <<>>
    /\ v4FailedAttempts = <<>>
    /\ v4ePc = "off"
    /\ v4eAtt = NoV4Attempt
    /\ v4eFaults = 0

\* The life cycle of the ConnectionManager is not followed.
NoCmOp == [op |-> "none", after |-> FALSE, ok |-> FALSE, rollbackFailed |-> FALSE]

CmOff ==
    /\ cmInitCalls = 0
    /\ cmIntervals = {}
    /\ healthCheckInterval = 0
    /\ cmSockets = <<>>
    /\ cmWsProvider = 0
    /\ cmReconnectTimers = 0
    /\ cmReconnectAttempts = 0
    /\ cmDbPool = "off"
    /\ cmDbConnected = FALSE
    /\ cmDbReachable = FALSE
    /\ cmCheckedOut = 0
    /\ cmListenerBound = 0
    /\ cmClosed = FALSE
    /\ cmLast = NoCmOp

\* The listener's handler and its monitor are not followed step by step.
NoVerdict == [isSuspicious |-> FALSE, flags |-> {}]
NoCheck == [wallet |-> "none", now |-> 0, verdict |-> NoVerdict]
NoBet == [epoch |-> 0, wallet |-> "none", seenBefore |-> FALSE, checked |-> FALSE,
          verdict |-> NoVerdict]

MonOff ==
    /\ recentBets = <<>>
    /\ monNow = 0
    /\ monHistory = <<>>
    /\ monLast = NoCheck
    /\ lsSeen = {}
    /\ lsObserved = {}
    /\ lsInFlight = {}
    /\ lsRealbet = {}
    /\ lsPublished = {}
    /\ lsLast = NoBet

\* No block search is followed fetch by fetch.
BsOff ==
    /\ bsLegacy = FALSE
    /\ bsHead = 0
    /\ bsTarget = 0
    /\ bsPc = "idle"
    /\ bsLow = 0
    /\ bsHigh = 0
    /\ bsClosest = 0
    /\ bsClosestDiff = 0
    /\ bsSeen = <<>>
    /\ bsResult = <<>>

\* Every part that is followed on its own is off, except the one named.
SidesOff(on) ==
    /\ IF on = "detector" THEN TRUE ELSE DetectorOff
    /\ IF on = "rpc" THEN TRUE ELSE RpcOff
    /\ IF on = "ws" THEN TRUE ELSE WsOff
    /\ IF on \in {"v4", "v4tasks"} THEN TRUE ELSE V4Off
    /\ IF on = "v4tasks" THEN TRUE ELSE LatestOff
    /\ IF on = "fb" THEN TRUE ELSE FbOff
    /\ IF on = "push" THEN TRUE ELSE PushOff
    /\ IF on = "read" THEN TRUE ELSE ReadOff
    /\ IF on = "v4epoch" THEN TRUE ELSE V4eOff
    /\ IF on = "cm" THEN TRUE ELSE CmOff
    /\ IF on = "mon" THEN TRUE ELSE MonOff
    /\ IF on = "bs" THEN TRUE ELSE BsOff

Init ==
    /\ chainBetDirs \in SUBSET {"UP", "DOWN"}
    /\ chainClaimCount \in 0..MaxClaims
    /\ chainClosedUpTo \in {MaxEpoch - 1, MaxEpoch}
    /\ chainSharedTx \in BOOLEAN
    /\ chainPriceShift = 0
    /\ chainStrayBet = FALSE
    /\ uniqueClaimWallet \in BOOLEAN
    /\ faultBudget = MaxFaults
    /\ InitProcess
    /\ SidesOff("none")

\* The start of the behaviours in which the Live Listener runs beside the reconciler:
\* every round of the window closed, the claims in separate transactions.
InitLive ==
    /\ chainBetDirs \in SUBSET {"UP", "DOWN"}
    /\ chainClaimCount = MaxClaims
    /\ chainClosedUpTo = MaxEpoch
    /\ chainSharedTx = FALSE
    /\ chainPriceShift \in {0, 1}
    /\ chainStrayBet = FALSE
    /\ uniqueClaimWallet = TRUE
    /\ faultBudget = MaxLiveFaults
    /\ InitProcess
    /\ SidesOff("none")

\* --------------------------------------------- HistoricalCrawler, the driver
\* processHistoryData, lines 359-361: called by start() and by the 30-minute timer.
HD_Start ==
    /\ pc = "idle"
    /\ IF isProcessingHistory
       THEN UNCHANGED <<isProcessingHistory, shouldStopHistory, pc>>
       ELSE /\ isProcessingHistory' = TRUE
            /\ shouldStopHistory' = FALSE
            /\ pc' = "getEpoch"
    /\ UNCHANGED <<chainVars, sideVars, listenVars, detVars, tableVars, uniqueClaimWallet, dbConnected, checkEpoch,
                   failedAttempts, inTry, processedBets, faultBudget, failCount, att, dupDelivered>>

\* line 363: checkEpoch = (await getCurrentEpoch()) - 2; a throw leaves the method
\* with isProcessingHistory still true.
HD_GetEpoch ==
    /\ pc = "getEpoch"
    /\ \E o \in RpcOutcomes :
        /\ faultBudget' = faultBudget - FaultCost(o)
        /\ IF o = "ok"
           THEN /\ checkEpoch' = ChainCurrentEpoch - 2
                /\ pc' = "loop"
           ELSE /\ pc' = "idle"
                /\ UNCHANGED checkEpoch
    /\ UNCHANGED <<chainVars, sideVars, listenVars, detVars, tableVars, uniqueClaimWallet, dbConnected, isProcessingHistory,
                   shouldStopHistory, failedAttempts, inTry, processedBets, failCount, att,
                   dupDelivered>>

\* A hasRoundData that never finds the row.
hasRoundDataNever(tbl, epoch) == FALSE

\* hasRoundData: SELECT epoch FROM round WHERE epoch = $1; rows.length > 0
hasRoundData(tbl, epoch) == \E r \in tbl : r.epoch = epoch

\* lines 366-367 and 373: the while test, then hasRoundData(checkEpoch).
HD_Loop ==
    /\ pc = "loop"
    /\ IF isProcessingHistory /\ ~shouldStopHistory /\ checkEpoch > 0
       THEN \E o \in DbOutcomes :
            /\ faultBudget' = faultBudget - FaultCost(o)
            /\ dbConnected' = DbAfter(o)
            /\ UNCHANGED isProcessingHistory
            /\ IF o = "ok"
               THEN IF hasRoundData(round, checkEpoch)
                    THEN /\ pc' = "advance"
                         /\ UNCHANGED att
                    ELSE /\ pc' = "skipCheck"
                         /\ att' = [NoAttempt EXCEPT !.epoch = checkEpoch,
                                                     !.priorFailures = failCount[checkEpoch],
                                                     !.result = "running"]
               ELSE /\ pc' = "idle"
                    /\ UNCHANGED att
       ELSE /\ isProcessingHistory' = FALSE
            /\ pc' = "idle"
            /\ UNCHANGED <<faultBudget, dbConnected, att>>
    /\ UNCHANGED <<chainVars, sideVars, listenVars, detVars, tableVars, uniqueClaimWallet, shouldStopHistory, checkEpoch,
                   failedAttempts, inTry, processedBets, failCount, dupDelivered>>

\* A loop that steps over every other epoch.
NextCursorSkipsOne(epoch) == epoch - 2

\* checkEpoch--
NextCursor(epoch) == epoch - 1

\* lines 370-371: checkEpoch--, then the 2000 ms pause.
HD_Advance ==
    /\ pc = "advance"
    /\ checkEpoch' = NextCursor(checkEpoch)
    /\ pc' = "loop"
    /\ UNCHANGED <<chainVars, sideVars, listenVars, detVars, tableVars, uniqueClaimWallet, dbConnected, isProcessingHistory,
                   shouldStopHistory, failedAttempts, inTry, processedBets, faultBudget, failCount,
                   att, dupDelivered>>

\* ------------------------------------------ HistoricalCrawler.processEpochData
\* lines 213-216: shouldSkipEpoch.
PE_SkipCheck ==
    /\ pc = "skipCheck"
    /\ \E o \in DbOutcomes :
        /\ faultBudget' = faultBudget - FaultCost(o)
        /\ dbConnected' = DbAfter(o)
        /\ IF o = "ok"
           THEN IF failed_epoch[checkEpoch] >= SkipThreshold
                THEN /\ pc' = "advance"
                     /\ att' = [att EXCEPT !.result = "false"]
                ELSE /\ pc' = "fetch"
                     /\ UNCHANGED att
           ELSE /\ pc' = "failure"
                /\ UNCHANGED att
    /\ inTry' = FALSE
    /\ UNCHANGED <<chainVars, sideVars, listenVars, detVars, tableVars, uniqueClaimWallet, isProcessingHistory,
                   shouldStopHistory, checkEpoch, failedAttempts, processedBets, failCount,
                   dupDelivered>>

\* A processEpochData whose catch swallows the error and lets the loop go on.
SwallowRpcError == "advance"

\* lines 258-260: an error thrown inside the try block, such as the one retryRequest
\* rethrows after its last attempt, lands in the catch, which calls handleEpochFailure.
CatchRpcError == "failure"

\* lines 218-240: every RPC call of the attempt (round struct, next round's start,
\* the two block searches, the three event queries, the block headers of the events).
PE_Fetch ==
    /\ pc = "fetch"
    /\ \E o \in RpcOutcomes :
        /\ faultBudget' = faultBudget - FaultCost(o)
        /\ IF o = "ok"
           THEN IF getRoundData(checkEpoch) = <<>> \/ getNextEpochStartTime(checkEpoch + 1) = 0
                THEN /\ pc' = "advance"
                     /\ att' = [att EXCEPT !.rpc = TRUE, !.result = "false"]
                ELSE /\ pc' = "commit"
                     /\ att' = [att EXCEPT !.rpc = TRUE]
           ELSE /\ pc' = CatchRpcError
                /\ att' = [att EXCEPT !.rpc = TRUE, !.rpcFailed = TRUE]
    /\ UNCHANGED <<chainVars, sideVars, listenVars, detVars, tableVars, uniqueClaimWallet, dbConnected, isProcessingHistory,
                   shouldStopHistory, checkEpoch, failedAttempts, inTry, processedBets,
                   failCount, dupDelivered>>

\* A processEpochData that runs the post-commit steps whatever the commit returned.
AfterSaveAlways(success) == "cleanup"

\* lines 243 and 256: the post-commit steps only if (success), else handleEpochFailure.
AfterSave(success) == IF success THEN "cleanup" ELSE "failure"

\* saveCompleteRoundData (lines 300-329) as called at line 242; a false return goes to
\* line 256, inside the try block.
PE_Commit ==
    /\ pc = "commit"
    /\ \E o \in DbOutcomes :
       LET queries == SaveQueries(RoundDataOf(checkEpoch), BetDataOf(checkEpoch),
                                  ClaimDataOf(checkEpoch))
       IN \E failAt \in IF o = "ok" THEN {0}
                        ELSE IF o = "queryFail" THEN 1..(Len(queries) + 1) ELSE {-1} :
          LET db == [round |-> round, hisbet |-> hisbet, claim |-> claim]
              res == IF failAt = -1 THEN [db |-> db, ok |-> FALSE]
                     ELSE ExecuteTransaction(db, queries, failAt)
          IN /\ faultBudget' = faultBudget - FaultCost(o)
             /\ dbConnected' = DbAfter(o)
             /\ round' = res.db.round
             /\ hisbet' = res.db.hisbet
             /\ claim' = res.db.claim
             /\ pc' = AfterSave(res.ok)
             /\ IF res.ok
                THEN /\ att' = [att EXCEPT !.committed = TRUE,
                                           !.again = \E r \in DOMAIN hisbet : r.epoch = checkEpoch,
                                           !.prov = {r \in DOMAIN realbet : r.epoch = checkEpoch},
                                           !.provLeft = {r \in DOMAIN realbet : r.epoch = checkEpoch}]
                     /\ UNCHANGED inTry
                ELSE /\ inTry' = TRUE
                     /\ att' = [att EXCEPT !.txFailAt = failAt]
    /\ UNCHANGED <<chainVars, sideVars, listenVars, detVars, realbet, failed_epoch, multi_round_claimer, uniqueClaimWallet,
                   isProcessingHistory, shouldStopHistory, checkEpoch, failedAttempts,
                   processedBets, failCount, dupDelivered>>

\* cleanupRealbetData without its DELETE.
cleanupRealbetDataNothing(tbl, epoch) == tbl

\* DELETE FROM realbet WHERE epoch = $1
cleanupRealbetData(tbl, epoch) == BagKeep(tbl, LAMBDA r : r.epoch # epoch)

\* cleanupRealbetData (lines 331-334) as called at line 244; a throw lands in the catch.
PE_Cleanup ==
    /\ pc = "cleanup"
    /\ \E o \in DbOutcomes :
        /\ faultBudget' = faultBudget - FaultCost(o)
        /\ dbConnected' = DbAfter(o)
        /\ IF o = "ok"
           THEN /\ realbet' = cleanupRealbetData(realbet, checkEpoch)
                /\ att' = [att EXCEPT !.provLeft = {r \in @ : BagIn(r, realbet')}]
                /\ pc' = "detect"
           ELSE /\ pc' = "failure"
                /\ UNCHANGED <<realbet, att>>
    /\ inTry' = FALSE
    /\ UNCHANGED <<chainVars, sideVars, listenVars, detVars, round, hisbet, claim, failed_epoch, multi_round_claimer,
                   uniqueClaimWallet, isProcessingHistory, shouldStopHistory, checkEpoch,
                   failedAttempts, processedBets, failCount, dupDelivered>>

\* How recordSuspiciousWallets can end: the first n upserts succeed, then one throws
\* into the catch (o says why), or all succeed.  Without the constraint
\* unique_claim_wallet the ON CONFLICT clause has no arbiter and every upsert throws.
RecordOutcomes(list) ==
    IF Len(list) = 0 THEN {[o |-> "none", n |-> 0]}
    ELSE IF ~dbConnected THEN {[o |-> "down", n |-> 0]}
    ELSE IF ~uniqueClaimWallet THEN {[o |-> "noArbiter", n |-> 0]}
    ELSE {[o |-> "ok", n |-> Len(list)]}
         \cup (IF faultBudget > 0
               THEN [o : {"queryFail", "connectFail"}, n : 0..(Len(list) - 1)]
               ELSE {})

\* lines 245-254: checkSingleRoundMultiClaims (which catches its own errors), then the
\* bookkeeping of a successful attempt.
PE_Detect ==
    /\ pc = "detect"
    /\ LET list == SuspiciousWallets(checkEpoch, ClaimDataOf(checkEpoch)) IN
       \E out \in RecordOutcomes(list) :
        /\ multi_round_claimer' = RecordFirst(multi_round_claimer, list, out.n)
        /\ faultBudget' = faultBudget - FaultCost(out.o)
        /\ dbConnected' = DbAfter(out.o)
    /\ failedAttempts' = [failedAttempts EXCEPT ![checkEpoch] = 0]
    /\ att' = [att EXCEPT !.detected = TRUE, !.result = "true"]
    /\ pc' = "advance"
    /\ UNCHANGED <<chainVars, sideVars, listenVars, detVars, round, hisbet, realbet, claim, failed_epoch, uniqueClaimWallet,
                   isProcessingHistory, shouldStopHistory, checkEpoch, inTry,
                   processedBets, failCount, dupDelivered>>

\* handleEpochFailure (lines 336-347) with recordFailedEpoch (349-351), called from
\* line 256 (inside the try: a throw lands in the catch, which calls it again) or from
\* the catch at line 260 (a throw leaves processEpochData and processHistoryData).
PE_HandleFailure ==
    /\ pc = "failure"
    /\ LET attempts == failedAttempts[checkEpoch] + 1 IN
       \E o \in DbOutcomes :
        /\ faultBudget' = faultBudget - FaultCost(o)
        /\ dbConnected' = DbAfter(o)
        /\ failCount' = [failCount EXCEPT ![checkEpoch] = IF att.failed THEN @ ELSE @ + 1]
        /\ IF o = "ok"
           THEN /\ IF attempts >= FailureLimit
                   THEN /\ failed_epoch' = [failed_epoch EXCEPT ![checkEpoch] = @ + 1]
                        /\ failedAttempts' = [failedAttempts EXCEPT ![checkEpoch] = 0]
                        /\ UNCHANGED round
                   ELSE /\ round' = {r \in round : r.epoch # checkEpoch}
                        /\ failedAttempts' = [failedAttempts EXCEPT ![checkEpoch] = attempts]
                        /\ UNCHANGED failed_epoch
                /\ pc' = "advance"
                /\ att' = [att EXCEPT !.failed = TRUE, !.result = "false"]
           ELSE /\ failedAttempts' = [failedAttempts EXCEPT ![checkEpoch] = attempts]
                /\ UNCHANGED <<round, failed_epoch>>
                /\ IF inTry
                   THEN /\ pc' = "failure"
                        /\ att' = [att EXCEPT !.failed = TRUE]
                   ELSE /\ pc' = "idle"
                        /\ att' = [att EXCEPT !.failed = TRUE, !.result = "threw"]
    /\ inTry' = FALSE
    /\ UNCHANGED <<chainVars, sideVars, listenVars, detVars, hisbet, realbet, claim, multi_round_claimer, uniqueClaimWallet,
                   isProcessingHistory, shouldStopHistory, checkEpoch, processedBets,
                   dupDelivered>>

\* ------------------------------------------------------- RealtimeListener
\* The bet events the subscription can deliver: those of the chain, any number of times.
LiveBetEvents ==
    UNION {{[ev |-> ChainBetBullEvents(e)[i], direction |-> "UP"] : i \in 1..Len(ChainBetBullEvents(e))}
           \cup {[ev |-> ChainBetBearEvents(e)[i], direction |-> "DOWN"] : i \in 1..Len(ChainBetBearEvents(e))}
           : e \in Epochs}

\* realbet without its UNIQUE (epoch, wallet_address) constraint.
RealbetNoConstraint(tbl, row) == FALSE

\* INSERT INTO realbet (...) VALUES (...): the constraint unique_realbet_epoch_wallet
\* makes the statement throw on a second row of one (epoch, wallet).
RealbetConflict(tbl, row) ==
    \E r \in DOMAIN tbl : r.epoch = row.epoch /\ r.wallet_address = row.wallet_address

\* processedBets.has(betKey) of a listener that never recognizes a key.
SeenNever(betKey, seen) == FALSE

\* processedBets.has(betKey)
Seen(betKey, seen) == betKey \in seen

\* SuspiciousWalletMonitor.checkSuspiciousWallet: the total bet count of the wallet, as
\* the event spells it, goes up by one on every call.
CountBet(counts, wallet) ==
    [w \in DOMAIN counts \cup {wallet} |->
        IF w = wallet THEN (IF w \in DOMAIN counts THEN counts[w] ELSE 0) + 1 ELSE counts[w]]

\* handleBetEvent (lines 128-154).
HandleBetEvent ==
    /\ \E b \in LiveBetEvents :
       LET betKey == <<b.ev.epoch, ToLowerCase(b.ev.sender)>>
           betData == [epoch |-> b.ev.epoch, wallet_address |-> ToLowerCase(b.ev.sender),
                       bet_direction |-> b.direction]
       IN IF Seen(betKey, processedBets)
          THEN /\ dupDelivered' = TRUE
               /\ UNCHANGED <<processedBets, realbet, faultBudget, dbConnected, listenVars>>
          ELSE /\ processedBets' = processedBets \cup {betKey}
               /\ walletBetCounts' = CountBet(walletBetCounts, b.ev.sender)
               /\ broadcasts' = BagAdd(broadcasts, [channel |-> "new_bet_data", data |-> betData])
               /\ \E o \in DbOutcomes :
                   /\ faultBudget' = faultBudget - FaultCost(o)
                   /\ dbConnected' = DbAfter(o)
                   /\ IF o = "ok" /\ ~RealbetConflict(realbet, betData)
                      THEN /\ realbet' = BagAdd(realbet, betData)
                           /\ UNCHANGED dupDelivered
                      ELSE /\ UNCHANGED realbet
                           /\ dupDelivered' = (dupDelivered \/ o = "ok")
    /\ UNCHANGED <<chainVars, sideVars, detVars, round, hisbet, claim, failed_epoch, multi_round_claimer,
                   uniqueClaimWallet, pc, isProcessingHistory, shouldStopHistory, checkEpoch,
                   failedAttempts, inTry, failCount, att>>

\* ---------------------------------------------------------------- process
\* The process ends (process.exit, an unhandled rejection, a kill) and index.js starts
\* it again: every in-memory field is back to its constructor value, the datastore stays.
Restart ==
    /\ faultBudget > 0
    /\ faultBudget' = faultBudget - 1
    /\ dbConnected' = TRUE
    /\ pc' = "idle"
    /\ isProcessingHistory' = FALSE
    /\ shouldStopHistory' = FALSE
    /\ checkEpoch' = 0
    /\ failedAttempts' = [e \in Epochs |-> 0]
    /\ inTry' = FALSE
    /\ processedBets' = {}
    /\ walletBetCounts' = [w \in {} |-> 0]
    /\ broadcasts' = EmptyBag
    /\ att' = NoAttempt
    /\ UNCHANGED <<chainVars, sideVars, detVars, tableVars, uniqueClaimWallet, failCount, dupDelivered>>

\* The reconciler alone.
Next ==
    \/ HD_Start
    \/ HD_GetEpoch
    \/ HD_Loop
    \/ HD_Advance
    \/ PE_SkipCheck
    \/ PE_Fetch
    \/ PE_Commit
    \/ PE_Cleanup
    \/ PE_Detect
    \/ PE_HandleFailure
    \/ Restart

Spec == Init /\ [][Next]_vars

\* ------------------------------------- the reconciler over shared boundary blocks
\* The reconciler on a chain whose block ranges hold a bet of the neighbouring epoch.
InitStray ==
    /\ chainBetDirs \in SUBSET {"UP", "DOWN"}
    /\ chainClaimCount \in {0, 1}
    /\ chainClosedUpTo \in {MaxEpoch - 1, MaxEpoch}
    /\ chainSharedTx = FALSE
    /\ chainPriceShift = 0
    /\ chainStrayBet = TRUE
    /\ uniqueClaimWallet = TRUE
    /\ faultBudget = MaxLiveFaults
    /\ InitProcess
    /\ SidesOff("none")

SpecStray == InitStray /\ [][Next]_vars

\* ------------------------------------------------- the reconciler under fairness
\* Every round of the window closed, an environment that fails at most twice and then
\* answers; the reconciler's own steps and the 30-minute timer keep being taken, a
\* restart of the process is never owed.
InitConverge ==
    /\ chainBetDirs = {"UP", "DOWN"}
    /\ chainClaimCount = 0
    /\ chainClosedUpTo = MaxEpoch
    /\ chainSharedTx = FALSE
    /\ chainPriceShift = 0
    /\ chainStrayBet = FALSE
    /\ uniqueClaimWallet = TRUE
    /\ faultBudget = MaxLiveFaults
    /\ InitProcess
    /\ SidesOff("none")

FairReconciler ==
    /\ WF_vars(HD_Start)
    /\ WF_vars(HD_GetEpoch)
    /\ WF_vars(HD_Loop)
    /\ WF_vars(HD_Advance)
    /\ WF_vars(PE_SkipCheck)
    /\ WF_vars(PE_Fetch)
    /\ WF_vars(PE_Commit)
    /\ WF_vars(PE_Cleanup)
    /\ WF_vars(PE_Detect)
    /\ WF_vars(PE_HandleFailure)

SpecConverge == InitConverge /\ [][Next]_vars /\ FairReconciler

\* --------------------------------------------- the detector on its own
\* Claim rows of one claim-epoch: two wallets, enough bet-epochs to cross the threshold.
DetWallets == {"W1", "w2"}
DetBetEpochs == 1..(suspiciousThreshold + 1)
DetRows == [wallet_address : DetWallets, claim_amount : {1}, bet_epoch : DetBetEpochs]

InitDetector ==
    /\ chainBetDirs = {"UP", "DOWN"}
    /\ chainClaimCount = 0
    /\ chainClosedUpTo = MaxEpoch
    /\ chainSharedTx = FALSE
    /\ chainPriceShift = 0
    /\ chainStrayBet = FALSE
    /\ uniqueClaimWallet \in BOOLEAN
    /\ faultBudget = 1
    /\ InitProcess
    /\ SidesOff("detector")
    /\ detClaims \in UNION {[1..n -> DetRows] : n \in 0..MaxDetClaims}
    /\ detReported = <<>>
    /\ detOutcome = "ready"
    /\ detRuns = 0

\* checkSingleRoundMultiClaims(epoch, claimData), lines 11-49: the list is returned
\* whether or not recordSuspiciousWallets could write it.
DetCheck ==
    /\ detOutcome = "ready"
    /\ LET list == SuspiciousWallets(MaxEpoch, detClaims) IN
       \E out \in RecordOutcomes(list) :
        /\ multi_round_claimer' = RecordFirst(multi_round_claimer, list, out.n)
        /\ faultBudget' = faultBudget - FaultCost(out.o)
        /\ dbConnected' = DbAfter(out.o)
        /\ detReported' = list
        /\ detOutcome' = out.o
    /\ detRuns' = detRuns + 1
    /\ UNCHANGED <<chainVars, sideVars, listenVars, round, hisbet, realbet, claim, failed_epoch, uniqueClaimWallet,
                   pc, isProcessingHistory, shouldStopHistory, checkEpoch, failedAttempts, inTry,
                   processedBets, failCount, att, dupDelivered, detClaims>>

\* The caller comes back for the same claim-epoch: with the same claimData, or with
\* the first claim event missing from the fetched range.
DetAgain ==
    /\ detOutcome \notin {"off", "ready"}
    /\ detRuns < MaxDetRuns
    /\ detClaims' \in {detClaims} \cup (IF detClaims = <<>> THEN {} ELSE {Tail(detClaims)})
    /\ detOutcome' = "ready"
    /\ UNCHANGED <<chainVars, sideVars, listenVars, tableVars, uniqueClaimWallet, dbConnected,
                   pc, isProcessingHistory, shouldStopHistory, checkEpoch, failedAttempts, inTry,
                   processedBets, faultBudget, failCount, att, dupDelivered, detReported, detRuns>>

\* scripts/fix_constraint.js: ALTER TABLE multi_round_claimer ADD CONSTRAINT
\* unique_claim_wallet UNIQUE (claim_epoch, wallet_address), run by hand.
FixConstraint ==
    /\ detOutcome # "off"
    /\ ~uniqueClaimWallet
    /\ dbConnected
    /\ uniqueClaimWallet' = TRUE
    /\ UNCHANGED <<chainVars, sideVars, listenVars, tableVars, detVars, dbConnected,
                   pc, isProcessingHistory, shouldStopHistory, checkEpoch, failedAttempts, inTry,
                   processedBets, faultBudget, failCount, att, dupDelivered>>

NextDetector ==
    \/ DetCheck
    \/ DetAgain
    \/ FixConstraint

SpecDetector == InitDetector /\ [][NextDetector]_vars

\* The reconciler and the Live Listener against the same datastore.
NextLive ==
    \/ Next
    \/ HandleBetEvent

SpecLive == InitLive /\ [][NextLive]_vars

\* ------------------------------------------------- the reader of an epoch's bets
\* The reconciler and the Live Listener with a reader beside them: bets of both
\* directions in every epoch, every round of the window closed.
InitRead ==
    /\ chainBetDirs = {"UP", "DOWN"}
    /\ chainClaimCount = 0
    /\ chainClosedUpTo = MaxEpoch
    /\ chainSharedTx = FALSE
    /\ chainPriceShift = 0
    /\ chainStrayBet = FALSE
    /\ uniqueClaimWallet = TRUE
    /\ faultBudget = 1
    /\ InitProcess
    /\ SidesOff("read")
    /\ readPc = "idle"
    /\ readEpoch = 0
    /\ readResult = NoRead

\* The epoch has its round row and historical bet rows in the store.
HistoricallyCommitted(e) ==
    /\ \E r \in round : r.epoch = e
    /\ \E h \in DOMAIN hisbet : h.epoch = e

\* DatabaseV4.getRealBetsByEpoch: SELECT * FROM realbets WHERE epoch = $1
getRealBetsByEpoch(e) == BagKeep(realbet, LAMBDA r : r.epoch = e)

\* DatabaseV4.getBetsByEpoch: SELECT * FROM hisbets WHERE epoch = $1
getBetsByEpoch(e) == BagKeep(hisbet, LAMBDA r : r.epoch = e)

\* getSmartRoundData, step 1: the provisional table is asked first, and any row found
\* there is the answer (source 'realtime'); a throwing query is rethrown.
GS_Step1 ==
    /\ readPc = "idle"
    /\ \E e \in Epochs : \E threw \in BOOLEAN :
        /\ readEpoch' = e
        /\ IF threw
           THEN /\ readResult' = [epoch |-> e, source |-> "threw", committed |-> HistoricallyCommitted(e)]
                /\ readPc' = "idle"
           ELSE IF getRealBetsByEpoch(e) # EmptyBag
           THEN /\ readResult' = [epoch |-> e, source |-> "realtime",
                                  committed |-> HistoricallyCommitted(e)]
                /\ readPc' = "idle"
           ELSE /\ readResult' = [epoch |-> e, source |-> "pending",
                                  committed |-> HistoricallyCommitted(e)]
                /\ readPc' = "step2"
    /\ UNCHANGED notRead

\* getSmartRoundData, steps 2 and 3: the historical table, then 'none'.
GS_Step2 ==
    /\ readPc = "step2"
    /\ \E threw \in BOOLEAN :
        readResult' = [readResult EXCEPT !.source =
                          IF threw THEN "threw"
                          ELSE IF getBetsByEpoch(readEpoch) # EmptyBag THEN "history"
                          ELSE "none"]
    /\ readPc' = "idle"
    /\ UNCHANGED <<readEpoch, notRead>>

NextRead ==
    \/ NextLive
    \/ GS_Step1
    \/ GS_Step2

SpecRead == InitRead /\ [][NextRead]_vars

\* --------------------------------------------- retryRequest and rateLimit
\* JavaScript runs each piece of code between two awaits without interruption; time
\* moves only when nothing is runnable, to the next timer or response.
RpcTasks == 1..ConcurrentQueries

IdleTask == [pc |-> "idle", attempt |-> 0, wakeAt |-> 0, log |-> <<>>, result |-> "none"]

InitRpc ==
    /\ chainBetDirs = {"UP", "DOWN"}
    /\ chainClaimCount = 0
    /\ chainClosedUpTo = MaxEpoch
    /\ chainSharedTx = FALSE
    /\ chainPriceShift = 0
    /\ chainStrayBet = FALSE
    /\ uniqueClaimWallet = TRUE
    /\ faultBudget = 0
    /\ InitProcess
    /\ SidesOff("rpc")
    /\ rpcNow \in {1000, 1000 + requestDelay - 1}
    /\ lastRequestTime \in {0, 1000}
    /\ rpcTask = [t \in RpcTasks |-> IdleTask]
    /\ rpcStarts = <<>>

\* The last retries-th attempt: the error is thrown to the caller (line 117).
LastAttemptNever(attempt) == FALSE

LastAttempt(attempt) == attempt = retries

\* The underlying call starts: rateLimit's last line stamps lastRequestTime, then
\* retryRequest invokes operation().
StartOperation(t, d) ==
    /\ lastRequestTime' = rpcNow
    /\ rpcStarts' = IF rpcStarts = <<>> THEN <<rpcNow>>
                    ELSE <<rpcStarts[Len(rpcStarts)], rpcNow>>
    /\ rpcTask' = [rpcTask EXCEPT ![t].pc = "op", ![t].wakeAt = rpcNow + d]

\* retryRequest is called: attempt = 1 (line 112).
RR_Call ==
    /\ \E t \in RpcTasks :
        /\ rpcTask[t].pc = "idle"
        /\ rpcTask' = [rpcTask EXCEPT ![t].pc = "limit", ![t].attempt = 1]
    /\ UNCHANGED <<notRpc, rpcNow, lastRequestTime, rpcStarts>>

\* rateLimit, lines 103-108, up to its await or its end.
RL_Enter ==
    /\ \E t \in RpcTasks :
        /\ rpcTask[t].pc = "limit"
        /\ LET timeSinceLastRequest == rpcNow - lastRequestTime IN
           IF timeSinceLastRequest < requestDelay
           THEN /\ rpcTask' = [rpcTask EXCEPT ![t].pc = "waitLimit",
                                             ![t].wakeAt = rpcNow + (requestDelay - timeSinceLastRequest)]
                /\ UNCHANGED <<lastRequestTime, rpcStarts>>
           ELSE \E d \in 1..MaxOpTime : StartOperation(t, d)
    /\ UNCHANGED <<notRpc, rpcNow>>

\* rateLimit, line 108 after the timer of line 106 fired.
RL_Wake ==
    /\ \E t \in RpcTasks :
        /\ rpcTask[t].pc = "waitLimit"
        /\ rpcTask[t].wakeAt = rpcNow
        /\ \E d \in 1..MaxOpTime : StartOperation(t, d)
    /\ UNCHANGED <<notRpc, rpcNow>>

\* lines 115-123: the operation resolves (return) or rejects (throw on the last
\* attempt, else the backoff timer).  Values and errors carry their attempt number.
RR_OpDone ==
    /\ \E t \in RpcTasks :
        /\ rpcTask[t].pc = "op"
        /\ rpcTask[t].wakeAt = rpcNow
        /\ \E ok \in BOOLEAN :
            LET a == rpcTask[t].attempt IN
            rpcTask' = [rpcTask EXCEPT
                ![t].log = Append(@, IF ok THEN "ok" ELSE "err"),
                ![t].pc = IF ok THEN "returned"
                          ELSE IF LastAttempt(a) THEN "threw" ELSE "backoff",
                ![t].result = IF ok THEN <<"value", a>>
                              ELSE IF LastAttempt(a) THEN <<"error", a>> ELSE @,
                ![t].wakeAt = IF ~ok /\ ~LastAttempt(a) THEN rpcNow + BackoffUnit * a ELSE @]
    /\ UNCHANGED <<notRpc, rpcNow, lastRequestTime, rpcStarts>>

\* line 112 after the backoff: attempt++, the loop test, the next attempt or the end
\* of the function.
RR_Retry ==
    /\ \E t \in RpcTasks :
        /\ rpcTask[t].pc = "backoff"
        /\ rpcTask[t].wakeAt = rpcNow
        /\ rpcTask' = [rpcTask EXCEPT
                ![t].attempt = @ + 1,
                ![t].pc = IF rpcTask[t].attempt + 1 <= retries THEN "limit" ELSE "returned",
                ![t].result = IF rpcTask[t].attempt + 1 <= retries THEN @ ELSE <<"undefined", 0>>]
    /\ UNCHANGED <<notRpc, rpcNow, lastRequestTime, rpcStarts>>

RpcTimed(t) == rpcTask[t].pc \in {"waitLimit", "op", "backoff"}

\* Nothing is runnable: the clock moves to the next timer or response.
RpcTick ==
    /\ \A t \in RpcTasks : rpcTask[t].pc # "limit" /\ (RpcTimed(t) => rpcTask[t].wakeAt > rpcNow)
    /\ \E t \in RpcTasks :
        /\ RpcTimed(t)
        /\ \A u \in RpcTasks : RpcTimed(u) => rpcTask[t].wakeAt <= rpcTask[u].wakeAt
        /\ rpcNow' = rpcTask[t].wakeAt
    /\ UNCHANGED <<notRpc, lastRequestTime, rpcTask, rpcStarts>>

NextRpc ==
    \/ RR_Call
    \/ RL_Enter
    \/ RL_Wake
    \/ RR_OpDone
    \/ RR_Retry
    \/ RpcTick

SpecRpc == InitRpc /\ [][NextRpc]_vars

\* ------------------------------------------- the streaming connection
\* ConnectionManager is one object shared by the reconciler and the listener, and each
\* of them calls initialize() at startup: the process holds two sockets, each with the
\* handlers of initializeWebSocketProvider. A socket emits "open" at most once and
\* "close" once; a reconnect replaces the socket whose close armed it. Socket events
\* come at any time; a timer fires when its delay has passed, before time moves on.
WsChains == 1..2

InitWs ==
    /\ chainBetDirs = {"UP", "DOWN"}
    /\ chainClaimCount = 0
    /\ chainClosedUpTo = MaxEpoch
    /\ chainSharedTx = FALSE
    /\ chainPriceShift = 0
    /\ chainStrayBet = FALSE
    /\ uniqueClaimWallet = TRUE
    /\ faultBudget = 0
    /\ InitProcess
    /\ SidesOff("ws")
    /\ wsProc = "init1"
    /\ wsNow = 0
    /\ wsSocket = [c \in WsChains |-> IF c = 1 THEN "connecting" ELSE "none"]
    /\ wsInit = [c \in WsChains |-> IF c = 1 THEN "pending" ELSE "none"]
    /\ wsInitDue = [c \in WsChains |-> IF c = 1 THEN HandshakeTimeout ELSE 0]
    /\ wsConnected = FALSE
    /\ reconnectAttempts = 0
    /\ wsTimer = [c \in WsChains |-> 0]
    /\ wsSinceOpen = 0
    /\ wsGaveUp = FALSE
    /\ wsLateArms = 0
    /\ wsOpens = 0
    /\ wsRestarts = 0

WsAlive == wsProc \in {"init1", "ready1", "init2", "running"}

\* The initialize() call that is waiting for the handshake of chain c, if any.
WsAwaited(c) ==
    /\ wsInit[c] = "pending"
    /\ \/ wsProc = "init1" /\ c = 1
       \/ wsProc = "init2" /\ c = 2

\* A handshake promise that rejects during initialize() ends the process (index.js).
WsAfterReject(c) == IF WsAwaited(c) THEN "exited" ELSE wsProc

WsAfterResolve(c) ==
    IF ~WsAwaited(c) THEN wsProc
    ELSE IF wsProc = "init1" THEN "ready1" ELSE "running"

\* The "open" handlers of initializeWebSocketProvider.
WS_Open ==
    \E c \in WsChains :
        /\ WsAlive
        /\ wsSocket[c] = "connecting"
        /\ wsOpens < MaxWsOpens
        /\ wsSocket' = [wsSocket EXCEPT ![c] = "open"]
        /\ wsConnected' = TRUE
        /\ reconnectAttempts' = 0
        /\ wsInit' = [wsInit EXCEPT ![c] = IF @ = "pending" THEN "resolved" ELSE @]
        /\ wsProc' = WsAfterResolve(c)
        /\ wsSinceOpen' = 0
        /\ wsOpens' = wsOpens + 1
        /\ UNCHANGED <<notWs, wsNow, wsInitDue, wsTimer, wsGaveUp, wsLateArms, wsRestarts>>

\* The second initialize() of startServer, by the listener, up to its handshake await.
WS_Initialize2 ==
    /\ wsProc = "ready1"
    /\ wsProc' = "init2"
    /\ wsSocket' = [wsSocket EXCEPT ![2] = "connecting"]
    /\ wsInit' = [wsInit EXCEPT ![2] = "pending"]
    /\ wsInitDue' = [wsInitDue EXCEPT ![2] = wsNow + HandshakeTimeout]
    /\ UNCHANGED <<notWs, wsNow, wsConnected, reconnectAttempts, wsTimer, wsSinceOpen,
                   wsGaveUp, wsLateArms, wsOpens, wsRestarts>>

\* The "error" handlers of initializeWebSocketProvider.
WS_Error ==
    \E c \in WsChains :
        /\ WsAlive
        /\ wsSocket[c] \in {"connecting", "open"}
        /\ wsConnected' = FALSE
        /\ wsInit' = [wsInit EXCEPT ![c] = IF @ = "pending" THEN "rejected" ELSE @]
        /\ wsProc' = WsAfterReject(c)
        /\ UNCHANGED <<notWs, wsNow, wsInitDue, wsSocket, reconnectAttempts, wsTimer,
                       wsSinceOpen, wsGaveUp, wsLateArms, wsOpens, wsRestarts>>

\* The 10 s timer of the handshake promise.
WS_HandshakeTimeout ==
    \E c \in WsChains :
        /\ WsAlive
        /\ wsInit[c] = "pending"
        /\ wsInitDue[c] <= wsNow
        /\ wsInit' = [wsInit EXCEPT ![c] = "rejected"]
        /\ wsProc' = WsAfterReject(c)
        /\ UNCHANGED <<notWs, wsNow, wsInitDue, wsSocket, wsConnected, reconnectAttempts,
                       wsTimer, wsSinceOpen, wsGaveUp, wsLateArms, wsOpens, wsRestarts>>

ReconnectCapReached(attempts) == attempts >= MAX_RECONNECT_ATTEMPTS

\* The "close" handler and handleWebSocketReconnect.
WS_Close ==
    \E c \in WsChains :
        /\ WsAlive
        /\ wsSocket[c] \in {"connecting", "open"}
        /\ wsSocket' = [wsSocket EXCEPT ![c] = "closed"]
        /\ wsConnected' = FALSE
        /\ IF ReconnectCapReached(reconnectAttempts)
           THEN /\ wsGaveUp' = TRUE
                /\ UNCHANGED <<reconnectAttempts, wsTimer, wsLateArms>>
           ELSE /\ reconnectAttempts' = reconnectAttempts + 1
                /\ wsTimer' = [wsTimer EXCEPT
                                  ![c] = wsNow + RECONNECT_DELAY * (reconnectAttempts + 1)]
                /\ wsLateArms' = IF wsGaveUp THEN wsLateArms + 1 ELSE wsLateArms
                /\ UNCHANGED wsGaveUp
        /\ UNCHANGED <<notWs, wsNow, wsInitDue, wsProc, wsInit, wsSinceOpen, wsOpens,
                       wsRestarts>>

\* The timer of handleWebSocketReconnect: initializeWebSocketProvider up to its await.
WS_ReconnectTimer ==
    \E c \in WsChains :
        /\ WsAlive
        /\ wsTimer[c] # 0
        /\ wsTimer[c] <= wsNow
        /\ wsTimer' = [wsTimer EXCEPT ![c] = 0]
        /\ wsSocket' = [wsSocket EXCEPT ![c] = "connecting"]
        /\ wsInit' = [wsInit EXCEPT ![c] = "pending"]
        /\ wsInitDue' = [wsInitDue EXCEPT ![c] = wsNow + HandshakeTimeout]
        /\ wsSinceOpen' = wsSinceOpen + 1
        /\ UNCHANGED <<notWs, wsNow, wsProc, wsConnected, reconnectAttempts, wsGaveUp,
                       wsLateArms, wsOpens, wsRestarts>>

\* A timer whose delay has passed and whose callback has not run yet.
WsTimerDue ==
    \E c \in WsChains :
        \/ wsTimer[c] # 0 /\ wsTimer[c] <= wsNow
        \/ wsInit[c] = "pending" /\ wsInitDue[c] <= wsNow

\* Time passes.
WS_Tick ==
    /\ WsAlive
    /\ ~WsTimerDue
    /\ wsNow < MaxWsTicks * RECONNECT_DELAY
    /\ wsNow' = wsNow + RECONNECT_DELAY
    /\ UNCHANGED <<notWs, wsProc, wsSocket, wsInit, wsInitDue, wsConnected,
                   reconnectAttempts, wsTimer, wsSinceOpen, wsGaveUp, wsLateArms, wsOpens,
                   wsRestarts>>

\* The process is started again from outside.
WS_Restart ==
    /\ wsProc # "off"
    /\ wsRestarts < MaxWsRestarts
    /\ wsProc' = "init1"
    /\ wsNow' = 0
    /\ wsSocket' = [c \in WsChains |-> IF c = 1 THEN "connecting" ELSE "none"]
    /\ wsInit' = [c \in WsChains |-> IF c = 1 THEN "pending" ELSE "none"]
    /\ wsInitDue' = [c \in WsChains |-> IF c = 1 THEN HandshakeTimeout ELSE 0]
    /\ wsConnected' = FALSE
    /\ reconnectAttempts' = 0
    /\ wsTimer' = [c \in WsChains |-> 0]
    /\ wsSinceOpen' = 0
    /\ wsGaveUp' = FALSE
    /\ wsLateArms' = 0
    /\ wsOpens' = 0
    /\ wsRestarts' = wsRestarts + 1
    /\ UNCHANGED notWs

NextWs ==
    \/ WS_Open
    \/ WS_Initialize2
    \/ WS_Error
    \/ WS_HandshakeTimeout
    \/ WS_Close
    \/ WS_ReconnectTimer
    \/ WS_Tick
    \/ WS_Restart

SpecWs == InitWs /\ [][NextWs]_vars

\* ------------------------------------------- the legacy graceful stop
\* stopHistoryBackfill exists in the legacy UnifiedDataCrawler only
\* (source_to_refactor/v4bets/unified-crawler.js); it is followed together with the
\* loop it stops and with its callers.
V4Stoppers == {"interval", "stop"}

InitV4 ==
    /\ chainBetDirs = {"UP", "DOWN"}
    /\ chainClaimCount = 0
    /\ chainClosedUpTo = MaxEpoch
    /\ chainSharedTx = FALSE
    /\ chainPriceShift = 0
    /\ chainStrayBet = FALSE
    /\ uniqueClaimWallet = TRUE
    /\ faultBudget = 0
    /\ InitProcess
    /\ SidesOff("v4")
    /\ v4IsProcessingHistory = FALSE
    /\ v4ShouldStopHistory = FALSE
    /\ v4Pc = "none"
    /\ v4Stage = "none"
    /\ v4CheckEpoch = 0
    /\ v4StartTimer = 1
    /\ v4Starts = 1
    /\ v4Stop = [s \in V4Stoppers |-> "idle"]
    /\ v4Begun = {}
    /\ v4Done = {}
    /\ v4StopMidEpoch = FALSE

\* The finally block of processHistoryData.
V4Finally ==
    /\ v4IsProcessingHistory' = FALSE
    /\ v4ShouldStopHistory' = FALSE
    /\ v4Pc' = "none"

\* The timer of startHistoryBackfill fires: processHistoryData up to its first await.
V4_ProcessHistoryData ==
    /\ v4StartTimer > 0
    /\ v4StartTimer' = v4StartTimer - 1
    /\ IF v4IsProcessingHistory
       THEN UNCHANGED <<v4IsProcessingHistory, v4ShouldStopHistory, v4Pc>>
       ELSE /\ v4IsProcessingHistory' = TRUE
            /\ v4ShouldStopHistory' = FALSE
            /\ v4Pc' = "getEpoch"
    /\ UNCHANGED <<notV4, v4Stage, v4CheckEpoch, v4Starts, v4Stop, v4Begun, v4Done,
                   v4StopMidEpoch>>

\* getCurrentEpoch() answers, or answers 0 when the call failed (lines 75-87: the
\* error is caught there); checkEpoch = currentEpoch - 2.
V4_GetCurrentEpoch ==
    /\ v4Pc = "getEpoch"
    /\ \E ok \in BOOLEAN :
        /\ v4CheckEpoch' = (IF ok THEN ChainCurrentEpoch ELSE 0) - 2
        /\ v4Pc' = "while"
        /\ UNCHANGED <<v4IsProcessingHistory, v4ShouldStopHistory>>
    /\ UNCHANGED <<notV4, v4Stage, v4StartTimer, v4Starts, v4Stop, v4Begun, v4Done,
                   v4StopMidEpoch>>

\* while (this.isProcessingHistory && !this.shouldStopHistory)
V4_While ==
    /\ v4Pc = "while"
    /\ v4CheckEpoch > ChainCurrentEpoch - 2 - MaxV4Epochs
    /\ IF v4IsProcessingHistory /\ ~v4ShouldStopHistory
       THEN /\ v4Pc' = "hasRound"
            /\ UNCHANGED <<v4IsProcessingHistory, v4ShouldStopHistory>>
       ELSE V4Finally
    /\ UNCHANGED <<notV4, v4Stage, v4CheckEpoch, v4StartTimer, v4Starts, v4Stop, v4Begun,
                   v4Done, v4StopMidEpoch>>

\* hasRoundData(checkEpoch) answers; processEpochData is called when it says no.
V4_HasRoundData ==
    /\ v4Pc = "hasRound"
    /\ \E has \in BOOLEAN :
        IF has
        THEN /\ v4Pc' = "afterEpoch"
             /\ UNCHANGED <<v4Stage, v4Begun>>
        ELSE /\ v4Pc' = "epoch"
             /\ v4Stage' = "skipCheck"
             /\ v4Begun' = v4Begun \cup {v4CheckEpoch}
    /\ UNCHANGED <<notV4, v4IsProcessingHistory, v4ShouldStopHistory, v4CheckEpoch,
                   v4StartTimer, v4Starts, v4Stop, v4Done, v4StopMidEpoch>>

\* Where a processEpochData call can be after one more of its awaits: "return" when it
\* returns to the loop, "throw" when handleEpochFailure throws into the loop's catch.
V4StageAfter(stage) ==
    CASE stage = "skipCheck" -> {"return", "fetch", "failure"}
      [] stage = "fetch" -> {"return", "commit", "failure"}
      [] stage = "commit" -> {"return", "cleanup", "failure"}
      [] stage = "cleanup" -> {"return"}
      [] stage = "failure" -> {"return", "throw"}
      [] OTHER -> {}

\* processEpochData runs on by one await.
V4_ProcessEpochData ==
    /\ v4Pc = "epoch"
    /\ \E next \in V4StageAfter(v4Stage) :
        CASE next = "return" ->
                 /\ v4Stage' = "none"
                 /\ v4Pc' = "afterEpoch"
                 /\ v4Done' = v4Done \cup {v4CheckEpoch}
          [] next = "throw" ->
                 /\ v4Stage' = "none"
                 /\ v4Pc' = "catch"
                 /\ v4Done' = v4Done \cup {v4CheckEpoch}
          [] OTHER ->
                 /\ v4Stage' = next
                 /\ UNCHANGED <<v4Pc, v4Done>>
    /\ UNCHANGED <<notV4, v4IsProcessingHistory, v4ShouldStopHistory, v4CheckEpoch,
                   v4StartTimer, v4Starts, v4Stop, v4Begun, v4StopMidEpoch>>

\* checkEpoch--; if (this.shouldStopHistory) break; await this.delayMs(2000)
V4_AfterEpoch ==
    /\ v4Pc = "afterEpoch"
    /\ v4CheckEpoch' = v4CheckEpoch - 1
    /\ IF v4ShouldStopHistory
       THEN V4Finally
       ELSE /\ v4Pc' = "delay"
            /\ UNCHANGED <<v4IsProcessingHistory, v4ShouldStopHistory>>
    /\ UNCHANGED <<notV4, v4Stage, v4StartTimer, v4Starts, v4Stop, v4Begun, v4Done,
                   v4StopMidEpoch>>

\* The 2 s delay between two epochs is over.
V4_Delay ==
    /\ v4Pc = "delay"
    /\ v4Pc' = "while"
    /\ UNCHANGED <<notV4, v4IsProcessingHistory, v4ShouldStopHistory, v4Stage, v4CheckEpoch,
                   v4StartTimer, v4Starts, v4Stop, v4Begun, v4Done, v4StopMidEpoch>>

\* The catch inside the loop: checkEpoch--.
V4_Catch ==
    /\ v4Pc = "catch"
    /\ v4CheckEpoch' = v4CheckEpoch - 1
    /\ v4Pc' = "while"
    /\ UNCHANGED <<notV4, v4IsProcessingHistory, v4ShouldStopHistory, v4Stage, v4StartTimer,
                   v4Starts, v4Stop, v4Begun, v4Done, v4StopMidEpoch>>

\* A stopHistoryBackfill that never waits for the loop.
StopNeverWaits(processing) == FALSE

\* while (this.isProcessingHistory) await this.delayMs(1000)
StopMustWait(processing) == processing

\* stopHistoryBackfill up to its first await, called by the 30-minute timer or by stop().
V4_StopHistoryBackfill ==
    \E s \in V4Stoppers :
        /\ v4Stop[s] = "idle"
        /\ v4Pc # "off"
        /\ IF ~v4IsProcessingHistory
           THEN /\ v4Stop' = [v4Stop EXCEPT ![s] = "returned"]
                /\ UNCHANGED <<v4ShouldStopHistory, v4StopMidEpoch>>
           ELSE /\ v4ShouldStopHistory' = TRUE
                /\ v4Stop' = [v4Stop EXCEPT ![s] = IF StopMustWait(v4IsProcessingHistory)
                                                   THEN "waiting" ELSE "returned"]
                /\ v4StopMidEpoch' = (v4StopMidEpoch \/ v4Stage # "none")
        /\ UNCHANGED <<notV4, v4IsProcessingHistory, v4Pc, v4Stage, v4CheckEpoch,
                       v4StartTimer, v4Starts, v4Begun, v4Done>>

\* The 1 s poll of stopHistoryBackfill finds the loop gone.
V4_StopPoll ==
    \E s \in V4Stoppers :
        /\ v4Stop[s] = "waiting"
        /\ ~StopMustWait(v4IsProcessingHistory)
        /\ v4Stop' = [v4Stop EXCEPT ![s] = "returned"]
        /\ UNCHANGED <<notV4, v4IsProcessingHistory, v4ShouldStopHistory, v4Pc, v4Stage,
                       v4CheckEpoch, v4StartTimer, v4Starts, v4Begun, v4Done, v4StopMidEpoch>>

\* The 30-minute timer after its stop: startHistoryBackfill 5 s later arms the timer of
\* processHistoryData.
V4_Restart ==
    /\ v4Stop["interval"] = "returned"
    /\ v4Starts < MaxV4Starts
    /\ v4Stop' = [v4Stop EXCEPT !["interval"] = "idle"]
    /\ v4StartTimer' = v4StartTimer + 1
    /\ v4Starts' = v4Starts + 1
    /\ UNCHANGED <<notV4, v4IsProcessingHistory, v4ShouldStopHistory, v4Pc, v4Stage,
                   v4CheckEpoch, v4Begun, v4Done, v4StopMidEpoch>>

NextV4 ==
    \/ V4_ProcessHistoryData
    \/ V4_GetCurrentEpoch
    \/ V4_While
    \/ V4_HasRoundData
    \/ V4_ProcessEpochData
    \/ V4_AfterEpoch
    \/ V4_Delay
    \/ V4_Catch
    \/ V4_StopHistoryBackfill
    \/ V4_StopPoll
    \/ V4_Restart

SpecV4 == InitV4 /\ [][NextV4]_vars

\* ------------------------------------------- the legacy latest-rounds task
\* startPeriodicTasks arms two timers for processLatestData: the 5-minute interval
\* (line 586) and the one-shot scheduleTask (line 598).
V4LatestTimers == {"interval", "oneshot"}

LatestIdle == [pc |-> "idle", i |-> 0, epoch |-> 0, stage |-> "none"]

InitV4Tasks ==
    /\ chainBetDirs = {"UP", "DOWN"}
    /\ chainClaimCount = 0
    /\ chainClosedUpTo = MaxEpoch
    /\ chainSharedTx = FALSE
    /\ chainPriceShift = 0
    /\ chainStrayBet = FALSE
    /\ uniqueClaimWallet = TRUE
    /\ faultBudget = 0
    /\ InitProcess
    /\ SidesOff("v4tasks")
    /\ v4IsProcessingHistory = FALSE
    /\ v4ShouldStopHistory = FALSE
    /\ v4Pc = "none"
    /\ v4Stage = "none"
    /\ v4CheckEpoch = 0
    /\ v4StartTimer = 1
    /\ v4Starts = 1
    /\ v4Stop = [s \in V4Stoppers |-> "idle"]
    /\ v4Begun = {}
    /\ v4Done = {}
    /\ v4StopMidEpoch = FALSE
    /\ v4Latest = [t \in V4LatestTimers |-> LatestIdle]

\* for (let i = 2; i <= 6; i++): the next i at or after `from` whose targetEpoch is
\* positive (the others are passed over with continue), 0 when the loop is over.
LatestNextIndex(currentEpoch, from) ==
    IF \E i \in from..6 : currentEpoch - i > 0
    THEN CHOOSE i \in from..6 : currentEpoch - i > 0 /\ \A j \in from..(i - 1) : currentEpoch - j <= 0
    ELSE 0

\* A timer of processLatestData fires: the run up to its first await.
V4L_ProcessLatestData ==
    \E t \in DOMAIN v4Latest :
        /\ v4Latest[t].pc = "idle"
        /\ v4Latest' = [v4Latest EXCEPT ![t].pc = "getEpoch"]
        /\ UNCHANGED notLatest

\* Where the for loop goes from index `from`.
LatestLoop(l, currentEpoch, from) ==
    LET i == LatestNextIndex(currentEpoch, from) IN
    IF i = 0 THEN [l EXCEPT !.pc = "done", !.i = 0, !.epoch = 0]
    ELSE [l EXCEPT !.pc = "check", !.i = i, !.epoch = currentEpoch - i]

\* getCurrentEpoch(), which answers 0 when the call fails (lines 77-87).
V4L_GetCurrentEpoch ==
    \E t \in DOMAIN v4Latest : \E ok \in BOOLEAN :
        /\ v4Latest[t].pc = "getEpoch"
        /\ v4Latest' = [v4Latest EXCEPT ![t] =
                            LatestLoop(@, IF ok THEN ChainCurrentEpoch ELSE 0, 2)]
        /\ UNCHANGED notLatest

\* processEpochIfNeeded: hasRoundData(targetEpoch) answers; processEpochData is called
\* when it says no.
V4L_ProcessEpochIfNeeded ==
    \E t \in DOMAIN v4Latest : \E has \in BOOLEAN :
        /\ v4Latest[t].pc = "check"
        /\ v4Latest' = [v4Latest EXCEPT ![t] =
                            IF has THEN [@ EXCEPT !.pc = "delay"]
                            ELSE [@ EXCEPT !.pc = "epoch", !.stage = "skipCheck"]]
        /\ UNCHANGED notLatest

\* processEpochData, called by the latest-rounds task, runs on by one await; a throw
\* of handleEpochFailure ends the run in the catch of processLatestData.
V4L_ProcessEpochData ==
    \E t \in DOMAIN v4Latest : \E next \in V4StageAfter(v4Latest[t].stage) :
        /\ v4Latest[t].pc = "epoch"
        /\ v4Latest' = [v4Latest EXCEPT ![t] =
                            CASE next = "return" -> [@ EXCEPT !.pc = "delay", !.stage = "none"]
                              [] next = "throw" -> [@ EXCEPT !.pc = "done", !.stage = "none",
                                                             !.i = 0, !.epoch = 0]
                              [] OTHER -> [@ EXCEPT !.stage = next]]
        /\ UNCHANGED notLatest

\* await this.delayMs(1000), then the next i.
V4L_Delay ==
    \E t \in DOMAIN v4Latest :
        /\ v4Latest[t].pc = "delay"
        /\ v4Latest' = [v4Latest EXCEPT ![t] = LatestLoop(@, ChainCurrentEpoch, @.i + 1)]
        /\ UNCHANGED notLatest

NextV4Tasks ==
    \/ NextV4
    \/ V4L_ProcessLatestData
    \/ V4L_GetCurrentEpoch
    \/ V4L_ProcessEpochIfNeeded
    \/ V4L_ProcessEpochData
    \/ V4L_Delay

SpecV4Tasks == InitV4Tasks /\ [][NextV4Tasks]_vars

\* ------------------------------------------- the legacy processEpochData
\* UnifiedDataCrawler.processEpochData (source_to_refactor/v4bets/unified-crawler.js)
\* over the legacy tables rounds, hisbets, claims and failed_epochs of DatabaseV4
\* (source_to_refactor/v4bets/time-utils.js).  The RPC wrappers of the legacy crawler
\* catch the error retryRequest surfaces and answer a substitute value; each wrapper is
\* followed with the answer it gives when its call is exhausted.
InitV4Epoch ==
    /\ chainBetDirs \in SUBSET {"UP", "DOWN"}
    /\ chainClaimCount \in 0..MaxEpoch
    /\ chainClosedUpTo \in {MaxEpoch - 1, MaxEpoch}
    /\ chainSharedTx = FALSE
    /\ chainPriceShift = 0
    /\ chainStrayBet = FALSE
    /\ uniqueClaimWallet = TRUE
    /\ faultBudget = 0
    /\ InitProcess
    /\ SidesOff("v4epoch")
    /\ rounds = {}
    /\ hisbets = {}
    /\ claims = {}
    /\ failed_epochs = [e \in Epochs |-> 0]
    /\ v4FailedAttempts = [e \in Epochs |-> 0]
    /\ v4ePc = "idle"
    /\ v4eAtt = NoV4Attempt
    /\ v4eFaults = MaxV4EpochFaults

\* The fault budget after calls of which those with a FALSE flag were exhausted.
V4FaultsAfter(oks) == v4eFaults - Cardinality({i \in DOMAIN oks : ~oks[i]})

\* getRoundData: null (<<>>) when the round is not closed and when the read threw.
V4GetRoundData(epoch, ok) ==
    LET r == ChainRound(epoch) IN
    IF ~ok \/ r.closeTimestamp = 0 THEN <<>>
    ELSE <<[epoch |-> r.epoch,
            result |-> IF PriceUp(r.closePrice, r.lockPrice) THEN "UP" ELSE "DOWN"]>>

\* getRoundStartTime: null (0) when the round has not started and when the read threw.
V4GetRoundStartTime(epoch, ok) ==
    IF ~ok THEN 0 ELSE ChainRound(epoch).startTimestamp

\* getEventsInRange: three empty lists when a query threw.
V4GetEventsInRange(epoch, ok) ==
    IF ok
    THEN [betBullEvents |-> ChainBetBullEvents(epoch),
          betBearEvents |-> ChainBetBearEvents(epoch),
          claimEvents |-> ChainClaimEvents(epoch)]
    ELSE [betBullEvents |-> <<>>, betBearEvents |-> <<>>, claimEvents |-> <<>>]

\* getBlockTimestamp: the block's timestamp, or the wall clock when the read threw.
V4GetBlockTimestamp(ok) == IF ok THEN "block" ELSE "now"

\* processBetEvents: event.args.epoch is the row's epoch.
V4ProcessBetEvents(events, direction, ts) ==
    [i \in DOMAIN events |->
        [epoch |-> events[i].epoch, bet_ts |-> ts, wallet_address |-> events[i].sender,
         bet_direction |-> direction, tx_hash |-> events[i].transactionHash]]

\* The claim rows of processEpochData; extractClaimValues fills bet_epoch with
\* data.bet_epoch || data.epoch, which is the epoch the Claim event pays out.
V4ClaimRows(events, ts) ==
    [i \in DOMAIN events |->
        [epoch |-> events[i].epoch, bet_epoch |-> events[i].epoch, claim_ts |-> ts,
         wallet_address |-> events[i].sender, tx_hash |-> events[i].transactionHash]]

V4ValidateDataIntegrity(roundData, betData, claimData) ==
    /\ roundData # <<>>
    /\ betData # <<>>
    /\ \E i \in DOMAIN betData : betData[i].bet_direction = "UP"
    /\ \E i \in DOMAIN betData : betData[i].bet_direction = "DOWN"
    /\ claimData # <<>>

\* INSERT ... ON CONFLICT (tx_hash) DO NOTHING, row after row.
RECURSIVE InsertByTxHash(_, _)
InsertByTxHash(tbl, rows) ==
    IF rows = <<>> THEN tbl
    ELSE InsertByTxHash(
            IF \E r \in tbl : r.tx_hash = Head(rows).tx_hash THEN tbl ELSE tbl \cup {Head(rows)},
            Tail(rows))

\* The statements of deleteRoundData.
deleteClaims(tbl, epoch) == {c \in tbl : c.bet_epoch # epoch}
deleteBets(tbl, epoch) == {b \in tbl : b.epoch # epoch}
deleteRounds(tbl, epoch) == tbl \ {epoch}

\* processEpochData is entered by the backfill loop or the latest-rounds task, for an
\* epoch hasRoundData does not find; shouldSkipEpoch.
V4E_ProcessEpochData ==
    /\ v4ePc = "idle"
    /\ \E epoch \in Epochs :
        /\ epoch \notin rounds
        /\ v4eAtt' = [NoV4Attempt EXCEPT !.epoch = epoch,
                         !.result = IF failed_epochs[epoch] >= SkipThreshold THEN "false" ELSE "running"]
        /\ v4ePc' = IF failed_epochs[epoch] >= SkipThreshold THEN "idle" ELSE "getRoundData"
    /\ UNCHANGED <<rounds, hisbets, claims, failed_epochs, v4FailedAttempts, v4eFaults, notV4e>>

\* getRoundData(epoch) and getRoundStartTime(epoch + 1): a null answer returns false.
V4E_GetRoundData ==
    /\ v4ePc = "getRoundData"
    /\ \E ok \in [{"round", "next"} -> BOOLEAN] :
        LET failedRound == ~ok["round"]
            failedNext == ok["round"] /\ V4GetRoundData(v4eAtt.epoch, TRUE) # <<>> /\ ~ok["next"]
            roundData == V4GetRoundData(v4eAtt.epoch, ok["round"])
            nextStart == V4GetRoundStartTime(v4eAtt.epoch + 1, ok["next"])
            goesOn == roundData # <<>> /\ nextStart # 0
        IN
        /\ (failedRound \/ failedNext) => v4eFaults > 0
        /\ ~failedRound /\ roundData = <<>> => ok["next"]
        /\ failedRound => ok["next"]
        /\ v4eFaults' = IF failedRound \/ failedNext THEN v4eFaults - 1 ELSE v4eFaults
        /\ v4eAtt' = [v4eAtt EXCEPT
                        !.rpcFailed = @ \cup (IF failedRound \/ failedNext THEN {"round"} ELSE {}),
                        !.roundData = roundData,
                        !.result = IF goesOn THEN "running" ELSE "false"]
        /\ v4ePc' = IF goesOn THEN "findBlocks" ELSE "idle"
    /\ UNCHANGED <<rounds, hisbets, claims, failed_epochs, v4FailedAttempts, notV4e>>

\* findBlockByTimestamp for both ends of the range: null when a header read threw, and
\* processEpochData throws on a null block.
V4E_FindBlocks ==
    /\ v4ePc = "findBlocks"
    /\ \E ok \in BOOLEAN :
        /\ ~ok => v4eFaults > 0
        /\ v4eFaults' = IF ok THEN v4eFaults ELSE v4eFaults - 1
        /\ v4eAtt' = [v4eAtt EXCEPT !.rpcFailed = @ \cup (IF ok THEN {} ELSE {"blocks"})]
        /\ v4ePc' = IF ok THEN "getEvents" ELSE "failure"
    /\ UNCHANGED <<rounds, hisbets, claims, failed_epochs, v4FailedAttempts, notV4e>>

\* getEventsInRange, then processBetEvents and the claim loop with one getBlockTimestamp
\* per event.
V4E_GetEvents ==
    /\ v4ePc = "getEvents"
    /\ \E ok \in [{"events", "header"} -> BOOLEAN] :
        LET events == V4GetEventsInRange(v4eAtt.epoch, ok["events"])
            ts == V4GetBlockTimestamp(ok["header"])
            rows == Len(events.betBullEvents) + Len(events.betBearEvents) + Len(events.claimEvents)
            roundResult == v4eAtt.roundData[1].result
        IN
        /\ V4FaultsAfter(ok) >= 0
        /\ ~ok["header"] => rows > 0
        /\ v4eFaults' = V4FaultsAfter(ok)
        /\ v4eAtt' = [v4eAtt EXCEPT
                        !.rpcFailed = @ \cup {k \in {"events", "header"} : ~ok[k]},
                        !.betData = V4ProcessBetEvents(events.betBullEvents, "UP", ts)
                                    \o V4ProcessBetEvents(events.betBearEvents, "DOWN", ts),
                        !.claimData = V4ClaimRows(events.claimEvents, ts)]
        /\ v4ePc' = "validate"
    /\ UNCHANGED <<rounds, hisbets, claims, failed_epochs, v4FailedAttempts, notV4e>>

\* validateDataIntegrity, then saveCompleteRoundData in one transaction; a failed save
\* returns false without handleEpochFailure, a saved epoch drops its failedAttempts entry.
\* (The realbets cleanup after the save swallows its own error and touches none of the
\* tables followed here.)
V4E_ValidateAndSave ==
    /\ v4ePc = "validate"
    /\ \E saved \in BOOLEAN :
        LET valid == V4ValidateDataIntegrity(v4eAtt.roundData, v4eAtt.betData, v4eAtt.claimData)
            commits == valid /\ saved
        IN
        /\ ~saved => (valid /\ v4eFaults > 0)
        /\ v4eFaults' = IF saved THEN v4eFaults ELSE v4eFaults - 1
        /\ rounds' = IF commits THEN rounds \cup {v4eAtt.epoch} ELSE rounds
        /\ hisbets' = IF commits THEN InsertByTxHash(hisbets, v4eAtt.betData) ELSE hisbets
        /\ claims' = IF commits THEN InsertByTxHash(claims, v4eAtt.claimData) ELSE claims
        /\ v4FailedAttempts' = IF commits THEN [v4FailedAttempts EXCEPT ![v4eAtt.epoch] = 0]
                               ELSE v4FailedAttempts
        /\ v4eAtt' = [v4eAtt EXCEPT !.committed = commits,
                        !.result = IF ~valid THEN "running" ELSE IF saved THEN "true" ELSE "false"]
        /\ v4ePc' = IF valid THEN "idle" ELSE "failure"
    /\ UNCHANGED <<failed_epochs, notV4e>>

\* handleEpochFailure: the third failure goes to recordFailedEpoch, an earlier one to
\* deleteRoundData(epoch).
V4E_HandleEpochFailure ==
    /\ v4ePc = "failure"
    /\ LET epoch == v4eAtt.epoch
           attempts == v4FailedAttempts[epoch]
           atLimit == attempts + 1 >= FailureLimit
       IN
       /\ v4FailedAttempts' = [v4FailedAttempts EXCEPT ![epoch] = IF atLimit THEN 0 ELSE attempts + 1]
       /\ failed_epochs' = IF atLimit THEN [failed_epochs EXCEPT ![epoch] = @ + 1] ELSE failed_epochs
       /\ claims' = IF atLimit THEN claims ELSE deleteClaims(claims, epoch)
       /\ hisbets' = IF atLimit THEN hisbets ELSE deleteBets(hisbets, epoch)
       /\ rounds' = IF atLimit THEN rounds ELSE deleteRounds(rounds, epoch)
       /\ v4eAtt' = [v4eAtt EXCEPT !.counted = TRUE, !.deleted = ~atLimit, !.result = "false"]
       /\ v4ePc' = "idle"
    /\ UNCHANGED <<v4eFaults, notV4e>>

NextV4Epoch ==
    \/ V4E_ProcessEpochData
    \/ V4E_GetRoundData
    \/ V4E_FindBlocks
    \/ V4E_GetEvents
    \/ V4E_ValidateAndSave
    \/ V4E_HandleEpochFailure

SpecV4Epoch == InitV4Epoch /\ [][NextV4Epoch]_vars

\* ------------------------------------------- the ConnectionManager life cycle
\* The singleton ConnectionManager (src/unnamed/part_004) from the initialize() calls of
\* startServer to close(): health-check intervals, sockets and reconnect timers, the
\* datastore status and the pooled clients, and the listener's subscriptions.  The
\* handshake inside initializeWebSocketProvider is followed in detail by the streaming
\* connection above; here a provider comes up open or fails at once.
InitCm ==
    /\ chainBetDirs = {"UP", "DOWN"}
    /\ chainClaimCount = 0
    /\ chainClosedUpTo = MaxEpoch
    /\ chainSharedTx = FALSE
    /\ chainPriceShift = 0
    /\ chainStrayBet = FALSE
    /\ uniqueClaimWallet = TRUE
    /\ faultBudget = 0
    /\ InitProcess
    /\ SidesOff("cm")
    /\ cmInitCalls = 0
    /\ cmIntervals = {}
    /\ healthCheckInterval = 0
    /\ cmSockets = <<>>
    /\ cmWsProvider = 0
    /\ cmReconnectTimers = 0
    /\ cmReconnectAttempts = 0
    /\ cmDbPool = "none"
    /\ cmDbConnected = FALSE
    /\ cmDbReachable = TRUE
    /\ cmCheckedOut = 0
    /\ cmListenerBound = 0
    /\ cmClosed = FALSE
    /\ cmLast = NoCmOp

CmOp(op, ok) == [op |-> op, after |-> cmClosed, ok |-> ok, rollbackFailed |-> FALSE]

\* startHealthCheck: the handle of the new interval replaces the stored one; the timer
\* it replaces is not cleared.
startHealthCheck(intervals, handle, id) == intervals \cup {id}

\* close(), lines 286-289: clearInterval of the stored handle.
ClearHealthCheck(intervals, handle) == intervals \ {handle}

\* initialize(): pool, providers, contract, startHealthCheck.  The first call is the
\* crawler's, the second the listener's, which then takes getWebSocketProvider() and
\* getWebSocketContract() and subscribes in setupBlockchainEvents.  A failing
\* initialize ends the process (index.js), so the database is reachable here.
CM_Initialize ==
    /\ cmInitCalls < InitializeCalls
    /\ ~cmClosed
    /\ cmDbReachable
    /\ Len(cmSockets) < MaxCmSockets
    /\ cmInitCalls' = cmInitCalls + 1
    /\ cmDbPool' = "open"
    /\ cmDbConnected' = TRUE
    /\ cmSockets' = Append(cmSockets, "open")
    /\ cmWsProvider' = Len(cmSockets) + 1
    /\ cmReconnectAttempts' = 0
    /\ cmIntervals' = startHealthCheck(cmIntervals, healthCheckInterval, cmInitCalls + 1)
    /\ healthCheckInterval' = cmInitCalls + 1
    /\ cmListenerBound' = IF cmInitCalls + 1 = InitializeCalls THEN Len(cmSockets) + 1
                          ELSE cmListenerBound
    /\ cmLast' = CmOp("initialize", TRUE)
    /\ UNCHANGED <<notCm, cmReconnectTimers, cmDbReachable, cmCheckedOut, cmClosed>>

\* handleWebSocketReconnect: at the cap nothing, otherwise one more attempt and a timer.
CmAttemptsAfterClose(attempts) ==
    IF ReconnectCapReached(attempts) THEN attempts ELSE attempts + 1

CmTimersAfterClose(timers, attempts) ==
    IF ReconnectCapReached(attempts) THEN timers ELSE timers + 1

\* The "close" event of a socket, whether the peer dropped it or close() closed it: the
\* handler of initializeWebSocketProvider calls handleWebSocketReconnect.
CM_SocketClose ==
    /\ \E i \in DOMAIN cmSockets :
        /\ cmSockets[i] \in {"open", "closing"}
        /\ cmSockets' = [cmSockets EXCEPT ![i] = "closed"]
    /\ cmReconnectAttempts' = CmAttemptsAfterClose(cmReconnectAttempts)
    /\ cmReconnectTimers' = CmTimersAfterClose(cmReconnectTimers, cmReconnectAttempts)
    /\ cmLast' = CmOp("socketClose", TRUE)
    /\ UNCHANGED <<notCm, cmInitCalls, cmIntervals, healthCheckInterval, cmWsProvider, cmDbPool,
                   cmDbConnected, cmDbReachable, cmCheckedOut, cmListenerBound, cmClosed>>

\* The timer of handleWebSocketReconnect: initializeWebSocketProvider makes a new
\* provider the current one; its handshake succeeds, or the socket fails and closes.
CM_ReconnectTimer ==
    /\ cmReconnectTimers > 0
    /\ Len(cmSockets) < MaxCmSockets
    /\ \E ok \in BOOLEAN :
        /\ cmSockets' = Append(cmSockets, IF ok THEN "open" ELSE "closed")
        /\ cmWsProvider' = Len(cmSockets) + 1
        /\ cmReconnectAttempts' = IF ok THEN 0 ELSE CmAttemptsAfterClose(cmReconnectAttempts)
        /\ cmReconnectTimers' = IF ok THEN cmReconnectTimers - 1
                                ELSE CmTimersAfterClose(cmReconnectTimers - 1, cmReconnectAttempts)
        /\ cmLast' = CmOp("reconnect", ok)
    /\ UNCHANGED <<notCm, cmInitCalls, cmIntervals, healthCheckInterval, cmDbPool, cmDbConnected,
                   cmDbReachable, cmCheckedOut, cmListenerBound, cmClosed>>

\* getDatabaseConnection: throws at once without a pool or with dbConnected false,
\* otherwise checks a client out, and a failed checkout clears dbConnected.
getDatabaseConnection(pool, connected, reachable) == pool = "open" /\ connected /\ reachable

DbConnectedAfterCheckout(pool, connected, reachable) ==
    IF pool = "open" /\ connected THEN reachable ELSE connected

\* The client calls of executeQuery and executeTransaction on a checked-out client, in
\* order, up to and including the finally block; failAt = 0: nothing throws, otherwise
\* the failAt-th call throws.
ExecuteQueryCalls(failAt) == <<"query", "release">>

StatementCalls(n) == <<"BEGIN">> \o [i \in 1..n |-> "statement"] \o <<"COMMIT">>

ExecuteTransactionNoFinally(n, failAt, rollbackFails) ==
    IF failAt = 0 THEN StatementCalls(n) \o <<"release">>
    ELSE SubSeq(StatementCalls(n), 1, failAt) \o <<"ROLLBACK">>
         \o (IF rollbackFails THEN <<>> ELSE <<"release">>)

ExecuteTransactionCalls(n, failAt, rollbackFails) ==
    IF failAt = 0 THEN StatementCalls(n) \o <<"release">>
    ELSE SubSeq(StatementCalls(n), 1, failAt) \o <<"ROLLBACK">> \o <<"release">>

Releases(calls) == Cardinality({i \in DOMAIN calls : calls[i] = "release"})

\* executeQuery by the crawler or the listener.
CM_ExecuteQuery ==
    /\ cmInitCalls > 0
    /\ \E failAt \in 0..1 :
        LET got == getDatabaseConnection(cmDbPool, cmDbConnected, cmDbReachable) IN
        /\ ~got => failAt = 0
        /\ cmDbConnected' = DbConnectedAfterCheckout(cmDbPool, cmDbConnected, cmDbReachable)
        /\ cmCheckedOut' = IF got THEN cmCheckedOut + 1 - Releases(ExecuteQueryCalls(failAt))
                           ELSE cmCheckedOut
        /\ cmLast' = CmOp("executeQuery", got /\ failAt = 0)
    /\ UNCHANGED <<notCm, cmInitCalls, cmIntervals, healthCheckInterval, cmSockets, cmWsProvider,
                   cmReconnectTimers, cmReconnectAttempts, cmDbPool, cmDbReachable,
                   cmListenerBound, cmClosed>>

\* executeTransaction with n statements.
CM_ExecuteTransaction ==
    /\ cmInitCalls > 0
    /\ \E n \in 1..MaxStatements : \E failAt \in 0..(n + 2) : \E rollbackFails \in BOOLEAN :
        LET got == getDatabaseConnection(cmDbPool, cmDbConnected, cmDbReachable) IN
        /\ ~got => (failAt = 0 /\ n = 1)
        /\ rollbackFails => failAt # 0
        /\ cmDbConnected' = DbConnectedAfterCheckout(cmDbPool, cmDbConnected, cmDbReachable)
        /\ cmCheckedOut' =
            IF got THEN cmCheckedOut + 1 - Releases(ExecuteTransactionCalls(n, failAt, rollbackFails))
            ELSE cmCheckedOut
        /\ cmLast' = [CmOp("executeTransaction", got /\ failAt = 0) EXCEPT !.rollbackFailed = rollbackFails]
    /\ UNCHANGED <<notCm, cmInitCalls, cmIntervals, healthCheckInterval, cmSockets, cmWsProvider,
                   cmReconnectTimers, cmReconnectAttempts, cmDbPool, cmDbReachable,
                   cmListenerBound, cmClosed>>

\* A tick of a health-check interval: performHealthCheck runs executeQuery('SELECT 1')
\* and sets dbConnected to whether it returned.
CM_HealthCheck ==
    /\ cmIntervals # {}
    /\ LET got == getDatabaseConnection(cmDbPool, cmDbConnected, cmDbReachable) IN
       /\ cmDbConnected' = got
       /\ cmCheckedOut' = IF got THEN cmCheckedOut + 1 - Releases(ExecuteQueryCalls(0))
                          ELSE cmCheckedOut
       /\ cmLast' = CmOp("healthCheck", got)
    /\ UNCHANGED <<notCm, cmInitCalls, cmIntervals, healthCheckInterval, cmSockets, cmWsProvider,
                   cmReconnectTimers, cmReconnectAttempts, cmDbPool, cmDbReachable,
                   cmListenerBound, cmClosed>>

\* The database goes away or comes back; an idle client that loses its connection
\* makes the pool emit "error", whose handler clears dbConnected.
CM_Database ==
    /\ cmInitCalls > 0
    /\ cmDbReachable' = ~cmDbReachable
    /\ cmDbConnected' = IF cmDbReachable /\ cmDbPool = "open" THEN FALSE ELSE cmDbConnected
    /\ cmLast' = CmOp("database", ~cmDbReachable)
    /\ UNCHANGED <<notCm, cmInitCalls, cmIntervals, healthCheckInterval, cmSockets, cmWsProvider,
                   cmReconnectTimers, cmReconnectAttempts, cmDbPool, cmCheckedOut,
                   cmListenerBound, cmClosed>>

\* A bet or round event on the chain while the manager's current connection is open:
\* the listener handles it if the socket its subscriptions were made on is open.
CM_ChainEvent ==
    /\ cmListenerBound # 0
    /\ cmWsProvider # 0
    /\ cmSockets[cmWsProvider] = "open"
    /\ cmLast' = CmOp("chainEvent", cmSockets[cmListenerBound] = "open")
    /\ UNCHANGED <<notCm, cmInitCalls, cmIntervals, healthCheckInterval, cmSockets, cmWsProvider,
                   cmReconnectTimers, cmReconnectAttempts, cmDbPool, cmDbConnected,
                   cmDbReachable, cmCheckedOut, cmListenerBound, cmClosed>>

\* close(): clearInterval of the stored handle, websocket.close() of the current
\* provider, dbPool.end(), then status and connections are reset.
CM_Close ==
    /\ cmInitCalls > 0
    /\ ~cmClosed
    /\ cmIntervals' = ClearHealthCheck(cmIntervals, healthCheckInterval)
    /\ healthCheckInterval' = 0
    /\ cmSockets' = IF cmWsProvider # 0 /\ cmSockets[cmWsProvider] = "open"
                    THEN [cmSockets EXCEPT ![cmWsProvider] = "closing"]
                    ELSE cmSockets
    /\ cmWsProvider' = 0
    /\ cmDbPool' = "none"
    /\ cmDbConnected' = FALSE
    /\ cmReconnectAttempts' = 0
    /\ cmClosed' = TRUE
    /\ cmLast' = CmOp("close", TRUE)
    /\ UNCHANGED <<notCm, cmInitCalls, cmReconnectTimers, cmDbReachable, cmCheckedOut,
                   cmListenerBound>>

NextCm ==
    \/ CM_Initialize
    \/ CM_SocketClose
    \/ CM_ReconnectTimer
    \/ CM_ExecuteQuery
    \/ CM_ExecuteTransaction
    \/ CM_HealthCheck
    \/ CM_Database
    \/ CM_ChainEvent
    \/ CM_Close

SpecCm == InitCm /\ [][NextCm]_vars

\* ------------------------------------- the listener's handler, step by step
\* SuspiciousWalletMonitor (realtime-listener.js 7-35) and handleBetEvent (128-154) with
\* the clock, the list of recent bet times of every wallet and the INSERT of the
\* provisional row as a statement that finishes later than the handler's synchronous part.
MaxChecks == 12
MaxMonTicks == 2
highFrequencyWindow == 60000
maxBetsInWindow == 10
MonWallets == {"W1", "W2"}
BetDirections == {"UP", "DOWN"}

RECURSIVE TotalLen(_, _)
TotalLen(f, S) ==
    IF S = {} THEN 0
    ELSE LET w == CHOOSE x \in S : TRUE IN Len(f[w]) + TotalLen(f, S \ {w})

\* The times of a list that lie less than one window before now.
InWindow(times, now) == SelectSeq(times, LAMBDA time : now - time < highFrequencyWindow)

\* checkSuspiciousWallet of a monitor that never drops an old time.
checkSuspiciousWalletNoPrune(recent, wallet, now) ==
    LET walletRecentBets == IF wallet \in DOMAIN recent THEN recent[wallet] ELSE <<>>
        validRecentBets == Append(walletRecentBets, now)
        flags == IF Len(validRecentBets) > maxBetsInWindow THEN {"High frequency betting"} ELSE {}
    IN [recentBets |-> [w \in DOMAIN recent \cup {wallet} |->
                           IF w = wallet THEN validRecentBets ELSE recent[w]],
        verdict |-> [isSuspicious |-> flags # {}, flags |-> flags]]

\* checkSuspiciousWallet (lines 15-34): the recent times of the wallet are filtered to
\* those less than highFrequencyWindow old, now is pushed, the list is stored back, and
\* the one flag of this monitor is raised when the list is longer than maxBetsInWindow.
\* The total count of line 20 is kept (CountBet) and never compared with anything.
checkSuspiciousWallet(recent, wallet, now) ==
    LET walletRecentBets == IF wallet \in DOMAIN recent THEN recent[wallet] ELSE <<>>
        validRecentBets == Append(InWindow(walletRecentBets, now), now)
        flags == IF Len(validRecentBets) > maxBetsInWindow THEN {"High frequency betting"} ELSE {}
    IN [recentBets |-> [w \in DOMAIN recent \cup {wallet} |->
                           IF w = wallet THEN validRecentBets ELSE recent[w]],
        verdict |-> [isSuspicious |-> flags # {}, flags |-> flags]]

InitMon ==
    /\ chainBetDirs = {"UP", "DOWN"}
    /\ chainClaimCount = 0
    /\ chainClosedUpTo = MaxEpoch
    /\ chainSharedTx = FALSE
    /\ chainPriceShift = 0
    /\ chainStrayBet = FALSE
    /\ uniqueClaimWallet = TRUE
    /\ faultBudget = 0
    /\ InitProcess
    /\ SidesOff("mon")
    /\ recentBets = [w \in {} |-> <<>>]
    /\ monNow = 0
    /\ monHistory = [w \in MonWallets |-> <<>>]
    /\ monLast = NoCheck
    /\ lsSeen = {}
    /\ lsObserved = {}
    /\ lsInFlight = {}
    /\ lsRealbet = {}
    /\ lsPublished = {}
    /\ lsLast = NoBet

\* Date.now() moves on by half a window.
MON_Tick ==
    /\ monNow < MaxMonTicks * (highFrequencyWindow \div 2)
    /\ monNow' = monNow + (highFrequencyWindow \div 2)
    /\ UNCHANGED <<notMon, recentBets, monHistory, monLast, lsVars>>

\* One call of checkSuspiciousWallet for a wallet at the present time.
MON_Check ==
    /\ TotalLen(monHistory, MonWallets) < MaxChecks
    /\ \E wallet \in MonWallets :
       LET check == checkSuspiciousWallet(recentBets, wallet, monNow) IN
       /\ recentBets' = check.recentBets
       /\ monHistory' = [monHistory EXCEPT ![wallet] = Append(@, monNow)]
       /\ monLast' = [wallet |-> wallet, now |-> monNow, verdict |-> check.verdict]
    /\ UNCHANGED <<notMon, monNow, lsVars>>

\* handleBetEvent up to its await (lines 128-147): a key seen before ends the handler;
\* otherwise the key is set, the monitor is asked, the message with the bet and the
\* verdict goes to broadcastToClients, and only then the INSERT is issued.
LS_HandleBetEvent ==
    /\ \E sender \in MonWallets, epoch \in Epochs, direction \in BetDirections :
       LET betKey == <<epoch, ToLowerCase(sender)>>
           betData == [epoch |-> epoch, wallet_address |-> ToLowerCase(sender),
                       bet_direction |-> direction]
           check == checkSuspiciousWallet(recentBets, sender, monNow)
       IN /\ lsObserved' = lsObserved \cup {betKey}
          /\ IF Seen(betKey, lsSeen)
             THEN /\ lsLast' = [epoch |-> epoch, wallet |-> sender,
                                seenBefore |-> betKey \in lsObserved, checked |-> FALSE,
                                verdict |-> NoVerdict]
                  /\ UNCHANGED <<monVars, lsSeen, lsInFlight, lsPublished>>
             ELSE /\ lsSeen' = lsSeen \cup {betKey}
                  /\ recentBets' = check.recentBets
                  /\ monHistory' = [monHistory EXCEPT ![sender] = Append(@, monNow)]
                  /\ monLast' = [wallet |-> sender, now |-> monNow, verdict |-> check.verdict]
                  /\ lsPublished' = lsPublished \cup
                                       {[channel |-> "new_bet_data", data |-> betData,
                                         suspicious |-> check.verdict]}
                  /\ lsInFlight' = lsInFlight \cup {betData}
                  /\ lsLast' = [epoch |-> epoch, wallet |-> sender,
                                seenBefore |-> betKey \in lsObserved, checked |-> TRUE,
                                verdict |-> check.verdict]
                  /\ UNCHANGED monNow
    /\ UNCHANGED <<notMon, lsRealbet>>

\* The INSERT of lines 146-150 finishes: the row is written, or the statement throws
\* and the catch of lines 151-153 logs the error.
LS_InsertDone ==
    /\ \E row \in lsInFlight, outcome \in {"ok", "error"} :
        /\ lsInFlight' = lsInFlight \ {row}
        /\ lsRealbet' = IF outcome = "ok" THEN lsRealbet \cup {row} ELSE lsRealbet
    /\ UNCHANGED <<notMon, monVars, lsSeen, lsObserved, lsPublished, lsLast>>

\* The monitor alone, called for any wallet at any time.
NextMon ==
    \/ MON_Check
    \/ MON_Tick

SpecMon == InitMon /\ [][NextMon]_vars

\* The handler with its monitor.
NextListen ==
    \/ LS_HandleBetEvent
    \/ LS_InsertDone
    \/ MON_Tick

SpecListen == InitMon /\ [][NextListen]_vars

\* ------------------------------------------------------ the block search
\* findBlockByTimestamp reads the head once and then one block per step of its binary
\* search; every block 1..head exists and block timestamps increase strictly.
Abs(x) == IF x < 0 THEN -x ELSE x

FbChains ==
    {ts \in UNION {[1..n -> 1..MaxTimestamp] : n \in 1..MaxHead} :
        \A i \in 1..(Len(ts) - 1) : ts[i] < ts[i + 1]}

InitFb ==
    /\ chainBetDirs = {"UP", "DOWN"}
    /\ chainClaimCount = 0
    /\ chainClosedUpTo = MaxEpoch
    /\ chainSharedTx = FALSE
    /\ chainPriceShift = 0
    /\ chainStrayBet = FALSE
    /\ uniqueClaimWallet = TRUE
    /\ faultBudget = 0
    /\ InitProcess
    /\ SidesOff("fb")
    /\ fbTimestamps \in FbChains
    /\ fbTarget \in 0..(MaxTimestamp + 1)
    /\ fbResult = 0
    /\ fbLegacyResult = 0

\* The while loop of HistoricalCrawler.findBlockByTimestamp (lines 177-193).
RECURSIVE FindLoop(_, _, _, _, _)
FindLoop(ts, target, low, high, closestBlock) ==
    IF low > high THEN closestBlock
    ELSE LET mid == (low + high) \div 2 IN
         IF ts[mid] < target THEN FindLoop(ts, target, mid + 1, high, mid)
         ELSE IF ts[mid] > target THEN FindLoop(ts, target, low, mid - 1, mid)
         ELSE mid

\* HistoricalCrawler.findBlockByTimestamp
findBlockByTimestamp(ts, target) == FindLoop(ts, target, 1, Len(ts), Len(ts))

\* The while loop of the legacy findBlockByTimestamp: the closest block seen so far.
RECURSIVE LegacyFindLoop(_, _, _, _, _, _)
LegacyFindLoop(ts, target, low, high, closestBlock, closestDiff) ==
    IF low > high THEN closestBlock
    ELSE LET mid == (low + high) \div 2
             diff == Abs(ts[mid] - target)
             block == IF diff < closestDiff THEN mid ELSE closestBlock
             best == IF diff < closestDiff THEN diff ELSE closestDiff
         IN IF ts[mid] < target THEN LegacyFindLoop(ts, target, mid + 1, high, block, best)
            ELSE IF ts[mid] > target THEN LegacyFindLoop(ts, target, low, mid - 1, block, best)
            ELSE mid

\* UnifiedDataCrawler.findBlockByTimestamp
LegacyFindBlockByTimestamp(ts, target) ==
    IF target >= ts[Len(ts)] THEN Len(ts)
    ELSE LegacyFindLoop(ts, target, 1, Len(ts), Len(ts), Abs(ts[Len(ts)] - target))

FB_Find ==
    /\ fbTimestamps # <<>>
    /\ fbResult = 0
    /\ fbResult' = findBlockByTimestamp(fbTimestamps, fbTarget)
    /\ UNCHANGED <<notFb, fbTimestamps, fbTarget, fbLegacyResult>>

FB_LegacyFind ==
    /\ fbTimestamps # <<>>
    /\ fbLegacyResult = 0
    /\ fbLegacyResult' = LegacyFindBlockByTimestamp(fbTimestamps, fbTarget)
    /\ UNCHANGED <<notFb, fbTimestamps, fbTarget, fbResult>>

NextFb ==
    \/ FB_Find
    \/ FB_LegacyFind

SpecFb == InitFb /\ [][NextFb]_vars

\* ------------------------------------------- the block search, fetch by fetch
\* The same two searches one getBlock at a time, over chains of any shape: the header a
\* fetch answers is any timestamp or none (<<>>, a block the node does not have), drawn
\* at the fetch. No block is fetched twice in one search, so the answers drawn are the
\* chains with missing blocks and timestamps in any order. A fetch that keeps failing
\* leaves retryRequest as an exception.
MaxSearchHead == 16
MaxSearchTime == 3
SearchHeaders == {<<>>} \cup {<<t>> : t \in 1..MaxSearchTime}

InitBs ==
    /\ chainBetDirs = {"UP", "DOWN"}
    /\ chainClaimCount = 0
    /\ chainClosedUpTo = MaxEpoch
    /\ chainSharedTx = FALSE
    /\ chainPriceShift = 0
    /\ chainStrayBet = FALSE
    /\ uniqueClaimWallet = TRUE
    /\ faultBudget = 0
    /\ InitProcess
    /\ SidesOff("bs")
    /\ bsLegacy \in BOOLEAN
    /\ bsHead \in 1..MaxSearchHead
    /\ bsTarget \in 0..(MaxSearchTime + 1)
    /\ bsPc = "idle"
    /\ bsLow = 0
    /\ bsHigh = 0
    /\ bsClosest = 0
    /\ bsClosestDiff = 0
    /\ bsSeen = <<>>
    /\ bsResult = <<>>

\* The search range of a loop whose step towards the low half keeps the midpoint.
NextRangeKeepsMid(low, high, mid, block, target) ==
    IF block = <<>> THEN [low |-> low, high |-> mid]
    ELSE IF block[1] < target THEN [low |-> mid + 1, high |-> high]
    ELSE [low |-> low, high |-> mid]

\* The search range after a midpoint whose header is missing or differs from the target
\* (part_005 lines 180-187, unified-crawler.js lines 222-238).
NextRange(low, high, mid, block, target) ==
    IF block = <<>> THEN [low |-> low, high |-> mid - 1]
    ELSE IF block[1] < target THEN [low |-> mid + 1, high |-> high]
    ELSE [low |-> low, high |-> mid - 1]

\* findBlockByTimestamp, lines 172-175: the head is read once.
BS_Start ==
    /\ bsPc = "idle"
    /\ ~bsLegacy
    /\ \E answered \in BOOLEAN :
        IF answered
        THEN /\ bsPc' = "loop"
             /\ bsLow' = 1
             /\ bsHigh' = bsHead
             /\ bsClosest' = bsHead
        ELSE /\ bsPc' = "thrown"
             /\ UNCHANGED <<bsLow, bsHigh, bsClosest>>
    /\ UNCHANGED <<notBs, bsLegacy, bsHead, bsTarget, bsClosestDiff, bsSeen, bsResult>>

\* One turn of the while loop of lines 177-193: the exit with closestBlock, or one
\* getBlock(mid) and what the loop does with its answer.
BS_Loop ==
    /\ bsPc = "loop"
    /\ ~bsLegacy
    /\ IF bsLow > bsHigh
       THEN /\ bsPc' = "done"
            /\ bsResult' = <<bsClosest>>
            /\ UNCHANGED <<bsLow, bsHigh, bsClosest, bsSeen>>
       ELSE LET mid == (bsLow + bsHigh) \div 2 IN
            \E answered \in BOOLEAN, block \in SearchHeaders :
                IF ~answered
                THEN /\ bsPc' = "thrown"
                     /\ UNCHANGED <<bsLow, bsHigh, bsClosest, bsSeen, bsResult>>
                ELSE /\ bsSeen' = Append(bsSeen, <<mid, block>>)
                     /\ IF block # <<>> /\ block[1] = bsTarget
                        THEN /\ bsPc' = "done"
                             /\ bsResult' = <<mid>>
                             /\ UNCHANGED <<bsLow, bsHigh, bsClosest>>
                        ELSE /\ bsLow' = NextRange(bsLow, bsHigh, mid, block, bsTarget).low
                             /\ bsHigh' = NextRange(bsLow, bsHigh, mid, block, bsTarget).high
                             /\ bsClosest' = IF block = <<>> THEN bsClosest ELSE mid
                             /\ UNCHANGED <<bsPc, bsResult>>
    /\ UNCHANGED <<notBs, bsLegacy, bsHead, bsTarget, bsClosestDiff>>

\* The legacy findBlockByTimestamp, lines 193-212 and the catch of 246-249: the head and
\* its header are read; a head without header or a failed read ends in the catch with
\* null, a target at or after the head's time returns the head.
BS_LegacyStart ==
    /\ bsPc = "idle"
    /\ bsLegacy
    /\ \E answered \in BOOLEAN, currentBlockData \in SearchHeaders :
        IF ~answered \/ currentBlockData = <<>>
        THEN /\ bsPc' = "done"
             /\ bsResult' = <<>>
             /\ UNCHANGED <<bsLow, bsHigh, bsClosest, bsClosestDiff>>
        ELSE IF bsTarget >= currentBlockData[1]
        THEN /\ bsPc' = "done"
             /\ bsResult' = <<bsHead>>
             /\ UNCHANGED <<bsLow, bsHigh, bsClosest, bsClosestDiff>>
        ELSE /\ bsPc' = "loop"
             /\ bsLow' = 1
             /\ bsHigh' = bsHead
             /\ bsClosest' = bsHead
             /\ bsClosestDiff' = Abs(currentBlockData[1] - bsTarget)
             /\ UNCHANGED bsResult
    /\ UNCHANGED <<notBs, bsLegacy, bsHead, bsTarget, bsSeen>>

\* One turn of the legacy while loop, lines 214-244.
BS_LegacyLoop ==
    /\ bsPc = "loop"
    /\ bsLegacy
    /\ IF bsLow > bsHigh
       THEN /\ bsPc' = "done"
            /\ bsResult' = <<bsClosest>>
            /\ UNCHANGED <<bsLow, bsHigh, bsClosest, bsClosestDiff, bsSeen>>
       ELSE LET mid == (bsLow + bsHigh) \div 2 IN
            \E answered \in BOOLEAN, blockData \in SearchHeaders :
                IF ~answered
                THEN /\ bsPc' = "done"
                     /\ bsResult' = <<>>
                     /\ UNCHANGED <<bsLow, bsHigh, bsClosest, bsClosestDiff, bsSeen>>
                ELSE LET diff == IF blockData = <<>> THEN bsClosestDiff
                                 ELSE Abs(blockData[1] - bsTarget)
                         closer == blockData # <<>> /\ diff < bsClosestDiff
                     IN /\ bsSeen' = Append(bsSeen, <<mid, blockData>>)
                        /\ bsClosestDiff' = IF closer THEN diff ELSE bsClosestDiff
                        /\ IF blockData # <<>> /\ blockData[1] = bsTarget
                           THEN /\ bsPc' = "done"
                                /\ bsResult' = <<mid>>
                                /\ bsClosest' = IF closer THEN mid ELSE bsClosest
                                /\ UNCHANGED <<bsLow, bsHigh>>
                           ELSE /\ bsLow' = NextRange(bsLow, bsHigh, mid, blockData, bsTarget).low
                                /\ bsHigh' = NextRange(bsLow, bsHigh, mid, blockData, bsTarget).high
                                /\ bsClosest' = IF closer THEN mid ELSE bsClosest
                                /\ UNCHANGED <<bsPc, bsResult>>
    /\ UNCHANGED <<notBs, bsLegacy, bsHead, bsTarget>>

NextBs ==
    \/ BS_Start
    \/ BS_Loop
    \/ BS_LegacyStart
    \/ BS_LegacyLoop

\* Every await of the search is answered or fails in the end: a search that can take a
\* step takes it.
SpecBs == InitBs /\ [][NextBs]_vars /\ WF_vars(NextBs)

\* ------------------------------------------------------- the push server
\* DirectPushServer keeps the connections of its WebSocket server in this.clients;
\* RealtimeListener does the same in connectedClients with the same handlers and the
\* same broadcast. A connection is OPEN when it is handed over, CLOSING from the start
\* of its closing handshake, and CLOSED when its "close" event is emitted.
PushConnections == 1..MaxPushClients

InitPush ==
    /\ chainBetDirs = {"UP", "DOWN"}
    /\ chainClaimCount = 0
    /\ chainClosedUpTo = MaxEpoch
    /\ chainSharedTx = FALSE
    /\ chainPriceShift = 0
    /\ chainStrayBet = FALSE
    /\ uniqueClaimWallet = TRUE
    /\ faultBudget = 0
    /\ InitProcess
    /\ SidesOff("push")
    /\ pushClients = {}
    /\ pushState = [c \in PushConnections |-> "absent"]
    /\ pushReceived = [c \in PushConnections |-> 0]
    /\ pushSeq = 0
    /\ pushLastBy = "none"

\* wss.on('connection'): the connection joins the set.
DP_Connection ==
    \E c \in PushConnections :
        /\ pushState[c] = "absent"
        /\ pushState' = [pushState EXCEPT ![c] = "OPEN"]
        /\ pushClients' = pushClients \cup {c}
        /\ UNCHANGED <<notPush, pushReceived, pushSeq, pushLastBy>>

\* The closing handshake of a connection starts; no event is emitted yet.
DP_Closing ==
    \E c \in PushConnections :
        /\ pushState[c] = "OPEN"
        /\ pushState' = [pushState EXCEPT ![c] = "CLOSING"]
        /\ UNCHANGED <<notPush, pushClients, pushReceived, pushSeq, pushLastBy>>

\* ws.on('close'): the connection leaves the set.
DP_Close ==
    \E c \in PushConnections :
        /\ pushState[c] \in {"OPEN", "CLOSING"}
        /\ pushState' = [pushState EXCEPT ![c] = "CLOSED"]
        /\ pushClients' = pushClients \ {c}
        /\ UNCHANGED <<notPush, pushReceived, pushSeq, pushLastBy>>

\* ws.on('error'): the connection leaves the set; its close follows.
DP_Error ==
    \E c \in PushConnections :
        /\ pushState[c] \in {"OPEN", "CLOSING"}
        /\ c \in pushClients
        /\ pushClients' = pushClients \ {c}
        /\ UNCHANGED <<notPush, pushState, pushReceived, pushSeq, pushLastBy>>

\* client.send(message) for every client whose readyState is OPEN.
SendToOpen(clients) ==
    [c \in PushConnections |->
        IF c \in clients /\ pushState[c] = "OPEN" THEN pushReceived[c] + 1 ELSE pushReceived[c]]

\* What the broadcast of DirectPushServer and RealtimeListener leaves in the set.
KeepAll(clients) == clients

\* What the broadcast of the legacy TrunkServer leaves in the set (deadConnections).
KeepOpen(clients) == {c \in clients : pushState[c] = "OPEN"}

\* DirectPushServer.broadcast / RealtimeListener.broadcastToClients
DP_Broadcast ==
    /\ pushState # <<>>
    /\ pushSeq < MaxBroadcasts
    /\ pushSeq' = pushSeq + 1
    /\ pushLastBy' = "direct"
    /\ pushReceived' = SendToOpen(pushClients)
    /\ pushClients' = KeepAll(pushClients)
    /\ UNCHANGED <<notPush, pushState>>

\* The legacy TrunkServer.broadcast.
Trunk_Broadcast ==
    /\ pushState # <<>>
    /\ pushSeq < MaxBroadcasts
    /\ pushSeq' = pushSeq + 1
    /\ pushLastBy' = "trunk"
    /\ pushReceived' = SendToOpen(pushClients)
    /\ pushClients' = IF pushClients = {} THEN pushClients ELSE KeepOpen(pushClients)
    /\ UNCHANGED <<notPush, pushState>>

NextPush ==
    \/ DP_Connection
    \/ DP_Closing
    \/ DP_Close
    \/ DP_Error
    \/ DP_Broadcast
    \/ Trunk_Broadcast

SpecPush == InitPush /\ [][NextPush]_vars

\* ------------------------------------------------------ permanent skip
\* C1: an epoch whose reconciliation has failed 3 times is permanently skipped: no
\* later processEpochData call for it gets past the skip check to issue an RPC call.
C1_NoRpcAfterThreeFailures ==
    att.rpc => att.priorFailures < 3

\* C2: when the third failed attempt of an epoch has gone through handleEpochFailure,
\* failed_epoch holds a row for the epoch with failure_count = 3.
C2_ThirdFailureRecordsThree ==
    \A e \in Epochs :
        (att.epoch = e /\ att.failed /\ att.result = "false" /\ failCount[e] = 3)
            => failed_epoch[e] = 3

\* ------------------------------------------------------------ the commit
CommitQueries(e) == SaveQueries(RoundDataOf(e), BetDataOf(e), ClaimDataOf(e))
CommitTables == [round |-> round, hisbet |-> hisbet, claim |-> claim]

\* C3: once saveCompleteRoundData has committed an epoch's event set, committing the
\* same set again leaves the round, hisbet and claim tables with exactly the rows
\* (and so the row counts) of the single commit.
C3_SecondCommitChangesNothing ==
    (pc = "cleanup" /\ att.committed) =>
        LET again == ExecuteTransaction(CommitTables, CommitQueries(checkEpoch), 0)
        IN /\ again.ok
           /\ again.db = CommitTables
           /\ BagSize(again.db.hisbet) = BagSize(hisbet)
           /\ BagSize(again.db.claim) = BagSize(claim)
           /\ Cardinality(again.db.round) = Cardinality(round)

\* A commit of an epoch with bets of both directions and several claims has happened.
C3_Witness ==
    /\ pc = "cleanup"
    /\ att.committed
    /\ Len(BetDataOf(checkEpoch)) = 2
    /\ Len(ClaimDataOf(checkEpoch)) >= 2
    /\ BagSize(claim) >= 2

\* Every row of the statement list is in its table (by its conflict key).
AllVisible(db, queries) ==
    \A i \in 1..Len(queries) :
        LET q == queries[i] IN
        CASE q.table = "round"  -> \E r \in db.round : r.epoch = q.row.epoch
          [] q.table = "hisbet" -> \E r \in DOMAIN db.hisbet : r.tx_hash = q.row.tx_hash
          [] q.table = "claim"  -> \E r \in DOMAIN db.claim : r.tx_hash = q.row.tx_hash

\* C4: the commit is all-or-nothing: a saveCompleteRoundData call that reports failure
\* (a statement or the connection failed) leaves the round, hisbet and claim tables as
\* they were, and one that reports success has every row of the transaction in place.
C4_CommitAllOrNothing ==
    [][pc = "commit" =>
          IF pc' = "cleanup"
          THEN att'.committed /\ AllVisible(CommitTables', CommitQueries(checkEpoch))
          ELSE ~att'.committed /\ CommitTables' = CommitTables]_vars

\* A commit has failed at a statement after the round insert.
C4_Witness ==
    /\ pc = "failure"
    /\ inTry
    /\ att.txFailAt >= 2
    /\ ~att.committed

\* ------------------------------------------------------------ validation
\* validateDataIntegrity of the legacy crawler: the rule the design states.
validateDataIntegrity(roundData, betData, claimData) ==
    /\ roundData # <<>>
    /\ roundData[1].epoch # 0
    /\ {"lock_price", "close_price", "result"} \subseteq DOMAIN roundData[1]
    /\ Len(betData) # 0
    /\ \E i \in 1..Len(betData) : betData[i].bet_direction = "UP"
    /\ \E i \in 1..Len(betData) : betData[i].bet_direction = "DOWN"
    /\ Len(claimData) # 0

\* C5: no epoch is committed unless validation passed: an attempt whose bet set is
\* empty or one-sided, whose claim set is empty or whose round row lacks a field ends
\* in the failure handler without a commit.
C5_CommitOnlyIfValid ==
    att.committed =>
        validateDataIntegrity(getRoundData(att.epoch), BetDataOf(att.epoch), ClaimDataOf(att.epoch))

\* ------------------------------------------------- the two bet tables
\* C6: under every interleaving of the Live Listener and the reconciler, and however
\* often a bet event is delivered on either path, hisbet holds at most one row per
\* bet (tx_hash) and realbet at most one row per bet (epoch, wallet).
C6_AtMostOneRowPerBet ==
    /\ \A r \in DOMAIN hisbet :
        /\ hisbet[r] = 1
        /\ \A q \in DOMAIN hisbet : q.tx_hash = r.tx_hash => q = r
    /\ \A r \in DOMAIN realbet :
        /\ realbet[r] = 1
        /\ \A q \in DOMAIN realbet :
            (q.epoch = r.epoch /\ q.wallet_address = r.wallet_address) => q = r

\* A bet was delivered again on the live path, and its epoch has been committed a
\* second time while the bet also has a provisional row.
C6_Witness ==
    /\ dupDelivered
    /\ att.committed
    /\ att.again
    /\ \E h \in DOMAIN hisbet : \E q \in DOMAIN realbet :
        h.epoch = att.epoch /\ q.epoch = h.epoch /\ q.wallet_address = h.wallet_address

\* C7: a committed round row is immutable: no step of the reconciler changes or
\* deletes a row of the round table.
C7_CommittedRoundRowImmutable ==
    [][\A r \in round : r \in round']_vars

C9_DetectorOnlyAfterCommit ==
    [][((att'.detected /\ ~att.detected) \/ multi_round_claimer' # multi_round_claimer)
          => (pc = "detect" /\ att.committed /\ att.epoch = checkEpoch
              /\ \E r \in round : r.epoch = checkEpoch)]_vars

\* The detector has run and recorded a wallet while the Live Listener was active.
C9_Witness ==
    /\ att.detected
    /\ att.committed
    /\ multi_round_claimer # EmptyBag
    /\ processedBets # {}

\* ---------------------------------------------------------- the detector
DetInputWallets == {ToLowerCase(detClaims[i].wallet_address) : i \in 1..Len(detClaims)}
DetDistinctBetEpochs(w) ==
    Cardinality({detClaims[i].bet_epoch :
                    i \in {j \in 1..Len(detClaims) : ToLowerCase(detClaims[j].wallet_address) = w}})
DetReportedAs(w) == {detReported[i].claim_count :
                        i \in {j \in 1..Len(detReported) : detReported[j].wallet_address = w}}
DetRecordedAs(w) == {r.rounds_claimed :
                        r \in {x \in DOMAIN multi_round_claimer : x.wallet_address = w}}
DetDone == detOutcome \notin {"off", "ready"}

\* C10: given the claim rows of one claim-epoch, checkSingleRoundMultiClaims reports
\* and records a wallet if and only if its claims name more than 3 distinct bet-epochs,
\* and the recorded rounds_claimed is that number of distinct bet-epochs.
C10_ReportedAndRecordedIffOverThree ==
    DetDone =>
        \A w \in DetInputWallets :
            DetDistinctBetEpochs(w) > 3
                <=> (DetReportedAs(w) = {DetDistinctBetEpochs(w)}
                     /\ DetRecordedAs(w) = {DetDistinctBetEpochs(w)})

\* What does hold of the detector: a wallet is in the returned list if and only if its
\* claims name more than 3 distinct bet-epochs, with claim_count that number; a row of
\* multi_round_claimer is written only for such a wallet and with rounds_claimed that
\* number, and it is written whenever the upserts went through.
DetectorThresholdLaw ==
    (DetDone /\ detRuns = 1) =>
        /\ \A i \in 1..Len(detReported) : detReported[i].wallet_address \in DetInputWallets
        /\ \A r \in DOMAIN multi_round_claimer : r.wallet_address \in DetInputWallets
        /\ \A w \in DetInputWallets :
            LET n == DetDistinctBetEpochs(w) IN
            /\ DetReportedAs(w) = (IF n > 3 THEN {n} ELSE {})
            /\ DetRecordedAs(w) \subseteq (IF n > 3 THEN {n} ELSE {})
            /\ (detOutcome = "ok" /\ n > 3) => DetRecordedAs(w) = {n}

\* One wallet with 4 distinct bet-epochs reported and recorded with rounds_claimed 4,
\* beside a wallet under the threshold that is neither.
DetectorBothCases ==
    /\ detOutcome = "ok"
    /\ \E w \in DetInputWallets :
        /\ DetDistinctBetEpochs(w) = 4
        /\ DetReportedAs(w) = {4}
        /\ DetRecordedAs(w) = {4}
    /\ \E w \in DetInputWallets :
        /\ DetDistinctBetEpochs(w) \in 1..2
        /\ DetReportedAs(w) = {}
        /\ DetRecordedAs(w) = {}

\* ------------------------------------------------------- re-detection
\* The rows multi_round_claimer holds for the pair of a detection.
ClaimerRowsOf(s) ==
    BagKeep(multi_round_claimer,
            LAMBDA r : r.claim_epoch = s.epoch /\ r.wallet_address = s.wallet_address)

\* C11: re-detection is idempotent, not additive: after any number of detector runs
\* for one (claim epoch, wallet) pair, multi_round_claimer holds exactly one row for
\* the pair, with the rounds_claimed, total_amount and bet_epochs of the latest detection.
C11_OneRowPerPairWithLatestValues ==
    DetDone =>
        \A i \in 1..Len(detReported) :
            LET s == detReported[i] IN
            /\ BagSize(ClaimerRowsOf(s)) = 1
            /\ \A r \in DOMAIN ClaimerRowsOf(s) :
                /\ r.rounds_claimed = s.claim_count
                /\ r.total_amount = s.total_amount
                /\ r.bet_epochs = s.betEpochs

\* What does hold of the upsert: never two rows for one pair, and after a run whose
\* upserts went through, exactly one row with the values of that run.
DetectorUpsertLaw ==
    /\ \A r \in DOMAIN multi_round_claimer :
        /\ multi_round_claimer[r] = 1
        /\ \A q \in DOMAIN multi_round_claimer :
            (q.claim_epoch = r.claim_epoch /\ q.wallet_address = r.wallet_address) => q = r
    /\ detOutcome = "ok" => C11_OneRowPerPairWithLatestValues

\* A second detection of a pair has replaced the total_amount of the first.
DetectorRedetected ==
    /\ detRuns = 2
    /\ detOutcome = "ok"
    /\ \E i \in 1..Len(detReported) :
        /\ detReported[i].total_amount = 4
        /\ Len(detClaims) = 4
        /\ BagSize(ClaimerRowsOf(detReported[i])) = 1

\* ------------------------------------ multi_round_claimer against claim
\* verify_multi_claim.js: COUNT(DISTINCT bet_epoch) of the claim rows of one wallet
\* and claim epoch.
ClaimTableDistinctBetEpochs(wallet, claimEpoch) ==
    Cardinality({c.bet_epoch :
                    c \in {x \in DOMAIN claim : x.wallet_address = wallet /\ x.epoch = claimEpoch}})

\* C12: for every row of multi_round_claimer, rounds_claimed is the number of distinct
\* bet_epoch values among the claim rows of the same wallet and claim epoch, whatever
\* transaction hashes the claim events carried.
C12_RoundsClaimedMatchesClaimTable ==
    \A r \in DOMAIN multi_round_claimer :
        r.rounds_claimed = ClaimTableDistinctBetEpochs(r.wallet_address, r.claim_epoch)

\* ------------------------------------------------------- retryRequest
RpcFailures(n) == [i \in 1..n |-> "err"]

\* C13: retryRequest invokes the operation at most 3 times; it returns the result of
\* the first attempt that succeeds and makes no further attempt; when all 3 attempts
\* fail it throws the error of the final attempt.
C13_RetryAtMostThreeTimes ==
    \A t \in RpcTasks :
        LET k == rpcTask[t] IN
        /\ Len(k.log) <= 3
        /\ k.attempt <= 3
        /\ \A i \in 1..(Len(k.log) - 1) : k.log[i] = "err"
        /\ k.pc = "returned" =>
              /\ k.log = Append(RpcFailures(Len(k.log) - 1), "ok")
              /\ k.result = <<"value", Len(k.log)>>
        /\ k.pc = "threw" =>
              /\ k.log = RpcFailures(3)
              /\ k.result = <<"error", 3>>
        /\ (Len(k.log) = 3 /\ k.log[3] = "err") => k.pc = "threw"

\* One call returned the value of its second attempt, another threw after three.
C13_Witness ==
    \E t, u \in RpcTasks :
        /\ rpcTask[t].pc = "returned" /\ rpcTask[t].log = <<"err", "ok">>
        /\ rpcTask[u].pc = "threw" /\ rpcTask[u].log = <<"err", "err", "err">>

\* C14: any two underlying RPC calls issued through the rate limiter, from whatever
\* call sites and also from the concurrent queries of getEventsInRange, start at
\* least requestDelay ms apart.
C14_StartsAtLeastRequestDelayApart ==
    Len(rpcStarts) = 2 => rpcStarts[2] - rpcStarts[1] >= requestDelay

\* ------------------------------------------------------- reconnection
\* C15: after a closure at most MAX_RECONNECT_ATTEMPTS (5) reconnects are made without
\* an open in between, and once handleWebSocketReconnect has given up at the cap no
\* reconnect is armed any more until the process is restarted.
C15_ReconnectBounded ==
    /\ wsSinceOpen <= MAX_RECONNECT_ATTEMPTS
    /\ wsLateArms = 0

\* Lemma: the counter the cap is tested on never exceeds the cap.
ReconnectCounterBounded == reconnectAttempts <= MAX_RECONNECT_ATTEMPTS

C17_GracefulStop ==
    /\ [](\A e \in v4Begun : e \in v4Done \/ (v4Stage # "none" /\ v4CheckEpoch = e))
    /\ [][/\ (v4Pc # "none" /\ v4Pc' = "none") =>
                v4Pc \in {"getEpoch", "while", "afterEpoch"} /\ v4Stage = "none"
          /\ (\E s \in V4Stoppers : v4Stop[s] # "returned" /\ v4Stop'[s] = "returned") =>
                /\ v4Pc' = "none"
                /\ v4Stage' = "none"
                /\ v4Begun' \subseteq v4Done'
          /\ v4Stage # "none" =>
                \/ v4Stage' = v4Stage
                \/ v4Stage' \in V4StageAfter(v4Stage)
                \/ v4Stage' = "none" /\ v4CheckEpoch \in v4Done']_vars

\* A stop was requested in the middle of an epoch and has returned after that epoch
\* was done.
C17_Witness ==
    /\ v4StopMidEpoch
    /\ v4Stop["stop"] = "returned"
    /\ v4Begun # {}
    /\ v4Begun \subseteq v4Done
    /\ v4Pc = "none"

\* ------------------------------------------------------- block locator
\* The block b is one whose timestamp is nearest to the target among blocks 1..head.
NearestBlock(ts, target, b) ==
    /\ b \in 1..Len(ts)
    /\ \A k \in 1..Len(ts) : Abs(ts[b] - target) <= Abs(ts[k] - target)

\* C18: on a chain with strictly increasing timestamps and no missing block, for a
\* target earlier than the head's timestamp, findBlockByTimestamp returns a block whose
\* timestamp is nearest to the target (the exact block when there is one).
C18_FindsNearestBlock ==
    (fbResult # 0 /\ fbTarget < fbTimestamps[Len(fbTimestamps)])
        => NearestBlock(fbTimestamps, fbTarget, fbResult)

\* Lemma: the legacy search, which keeps the closest block it has seen, does return a
\* nearest block.
LegacyFindsNearestBlock ==
    (fbLegacyResult # 0 /\ fbTarget < fbTimestamps[Len(fbTimestamps)])
        => NearestBlock(fbTimestamps, fbTarget, fbLegacyResult)

\* Lemma: what the search does return is a neighbour of the target: the last block
\* before it or the first block not before it.
FindReturnsNeighbour ==
    (fbResult # 0 /\ fbTarget < fbTimestamps[Len(fbTimestamps)]) =>
        /\ fbResult \in 1..Len(fbTimestamps)
        /\ \A k \in 1..Len(fbTimestamps) :
              ~(fbTimestamps[fbResult] < fbTimestamps[k] /\ fbTimestamps[k] < fbTarget)
           /\ ~(fbTarget <= fbTimestamps[k] /\ fbTimestamps[k] < fbTimestamps[fbResult])

\* ------------------------------------------------------- round result
\* C19: every committed round has result "UP" if and only if its close price is
\* strictly greater than its lock price, and "DOWN" otherwise (a tie is DOWN).
C19_ResultUpIffCloseAboveLock ==
    \A r \in round :
        /\ r.result \in {"UP", "DOWN"}
        /\ r.result = "UP" <=> r.close_price > r.lock_price

\* A tie and a rise are both committed.
C19_Witness ==
    /\ \E r \in round : r.close_price = r.lock_price /\ r.result = "DOWN"
    /\ \E r \in round : r.close_price > r.lock_price /\ r.result = "UP"

\* A rise and a fall are both committed.
RiseAndFallCommitted ==
    /\ \E r \in round : r.close_price < r.lock_price /\ r.result = "DOWN"
    /\ \E r \in round : r.close_price > r.lock_price /\ r.result = "UP"

\* ------------------------------------------------------------ broadcast
\* A broadcast step sends the message once to every subscriber that is open and to
\* nobody else.
SentOnceToOpenOnly ==
    \A c \in PushConnections :
        pushReceived'[c] =
            IF c \in pushClients /\ pushState[c] = "OPEN" THEN pushReceived[c] + 1
            ELSE pushReceived[c]

\* A broadcast step leaves no subscriber in the set that it found not open.
NotOpenPruned ==
    \A c \in pushClients : pushState[c] # "OPEN" => c \notin pushClients'

\* C20: a broadcast sends the message exactly once to every subscriber whose
\* connection is open and to no subscriber whose connection is not open, and every
\* subscriber found not open is pruned from the subscriber set.
C20_BroadcastSendsAndPrunes ==
    [][pushSeq' # pushSeq => SentOnceToOpenOnly /\ NotOpenPruned]_vars

\* Lemma: the sending half holds for every broadcast.
BroadcastSendsOnceToOpenOnly ==
    [][pushSeq' # pushSeq => SentOnceToOpenOnly]_vars

\* Lemma: the legacy TrunkServer.broadcast does both.
TrunkBroadcastSendsAndPrunes ==
    [][(pushSeq' # pushSeq /\ pushLastBy' = "trunk") => SentOnceToOpenOnly /\ NotOpenPruned]_vars

\* ------------------------------------------------- reading an epoch's bets
\* C21: for a closed epoch whose historical rows are committed, a read of the epoch's
\* bets never returns provisional rows (source realtime), under every interleaving of
\* the reader, the reconciler and the Live Listener.
C21_CommittedEpochReadIsHistorical ==
    ~(readResult.source = "realtime" /\ readResult.committed)

\* ------------------------------------------------- the failure handler
\* The attempt got past the round struct read: it reached saveCompleteRoundData.
ReachedCommit == att.committed \/ att.txFailAt # 0

\* C22: after every failed attempt that occurs once the round was found closed,
\* whatever the failure counter, the store holds no round row for the epoch: the
\* failure handler has deleted any partially written round row.
C22_FailedAttemptLeavesNoRoundRow ==
    (att.failed /\ att.result = "false" /\ ReachedCommit)
        => ~\E r \in round : r.epoch = att.epoch

\* Lemma: the handler does delete the round row while the counter is below the limit.
FailureBelowLimitLeavesNoRoundRow ==
    (att.failed /\ att.result = "false" /\ failedAttempts[att.epoch] # 0)
        => ~\E r \in round : r.epoch = att.epoch

\* A failed attempt below the limit has had its committed round row deleted.
FailureBelowLimitHappened ==
    /\ att.failed
    /\ att.result = "false"
    /\ att.committed
    /\ failedAttempts[att.epoch] # 0

\* ------------------------------------------------- RPC errors
\* handleEpochFailure, lines 337-342, has counted one more failure of epoch e: the Map
\* entry went up by one, or at the limit it was turned into the failed_epoch record.
FailureCounted(e) ==
    /\ failCount'[e] = failCount[e] + 1
    /\ \/ failedAttempts'[e] = failedAttempts[e] + 1
       \/ /\ failedAttempts[e] + 1 >= FailureLimit
          /\ failed_epoch'[e] = failed_epoch[e] + 1

\* Lemma (live HistoricalCrawler): an RPC call that still fails after its retries sends
\* the attempt to the failure handler having committed nothing, and the handler (the
\* next step of the attempt, unless the process dies first) adds no row and counts one
\* more failure.
LiveRpcErrorIsEpochFailure ==
    /\ [](att.rpcFailed => (~att.committed /\ (pc = "failure" \/ att.failed)))
    /\ [][(att.rpcFailed /\ pc = "failure" /\ att' # att /\ att'.epoch = att.epoch)
            => (/\ FailureCounted(checkEpoch)
                /\ round' \subseteq round
                /\ UNCHANGED <<hisbet, claim, multi_round_claimer>>
                /\ att'.result \in {"false", "threw"})]_vars

\* An RPC error has been handled as the second failure of its epoch.
LiveRpcErrorHandled ==
    /\ att.rpcFailed
    /\ att.failed
    /\ att.result = "false"
    /\ failedAttempts[att.epoch] = 2

\* C23: when an RPC call made while reconciling an epoch (round struct read, block
\* header read, event query) still fails after its retries are exhausted, the attempt
\* commits nothing for the epoch and the epoch's failure counter is incremented; stated
\* for a processEpochData call of the legacy crawler that has returned.
C23_RpcErrorIsEpochFailure ==
    (v4ePc = "idle" /\ v4eAtt.rpcFailed # {}) => (~v4eAtt.committed /\ v4eAtt.counted)

\* The same for the two halves of the property, one call kind each: an exhausted block
\* header read of an event commits nothing, an exhausted round struct read is counted.
HeaderErrorCommitsNothing ==
    (v4ePc = "idle" /\ "header" \in v4eAtt.rpcFailed) => ~v4eAtt.committed

RoundReadErrorIsCounted ==
    (v4ePc = "idle" /\ "round" \in v4eAtt.rpcFailed) => v4eAtt.counted

\* Lemma (legacy crawler): an exhausted block search or event query does end in the
\* failure handler with nothing committed.
BlockSearchOrQueryErrorIsEpochFailure ==
    (v4ePc = "idle" /\ v4eAtt.rpcFailed \cap {"blocks", "events"} # {})
        => (~v4eAtt.committed /\ v4eAtt.counted)

\* ------------------------------------------------- one epoch at a time
\* The processEpochData invocations in progress: the one of the backfill loop and those
\* of the latest-rounds runs.
EpochCallsInProgress ==
    (IF v4Stage # "none" THEN 1 ELSE 0)
    + Cardinality({t \in DOMAIN v4Latest : v4Latest[t].stage # "none"})

\* C24: the reconciler processes one epoch at a time: at no moment are two
\* processEpochData invocations in progress, whether they come from overlapping
\* backfill runs, the 30-minute stop-and-relaunch or the periodic latest-rounds task.
C24_OneEpochAtATime ==
    EpochCallsInProgress <= 1

\* Lemma: the flag isProcessingHistory keeps the backfill runs themselves apart: a
\* timer that fires while a run is in progress starts nothing.
BackfillRunsDoNotOverlap ==
    [][(v4StartTimer' < v4StartTimer /\ v4Pc # "none") => UNCHANGED <<v4Pc, v4CheckEpoch, v4Stage>>]_vars

\* ------------------------------------------------- the backfill flag
\* C25: isProcessingHistory is true only while a backfill loop is executing: whenever
\* processHistoryData has ended, normally or by a throw of getCurrentEpoch,
\* hasRoundData or any other step, the flag is false, so the next scheduled run starts.
C25_FlagFalseWhenNoRun ==
    pc = "idle" => ~isProcessingHistory

\* Lemma: the legacy processHistoryData, which resets the flag in a finally block,
\* keeps the property.
LegacyFlagFalseWhenNoRun ==
    v4Pc = "none" => ~v4IsProcessingHistory

\* ------------------------------------------------- convergence of the backfill
\* The epoch has a round row or is permanently skipped.
Settled(e) == (\E r \in round : r.epoch = e) \/ failed_epoch[e] >= SkipThreshold

\* C26: the backfill converges: under fair scheduling and an environment that
\* eventually answers, every epoch 1..currentEpoch-2 eventually has a committed round
\* row or is permanently skipped.
C26_BackfillConverges ==
    <>(\A e \in Epochs : Settled(e))

\* Lemma: the only way not to converge is the backfill flag left set by a throw.
ConvergesUnlessFlagStuck ==
    <>((\A e \in Epochs : Settled(e)) \/ (pc = "idle" /\ isProcessingHistory))

\* ------------------------------------------------- a round that is not closed
\* The attempt in att read the round struct of an epoch whose round is not closed.
FoundNotClosed(a) == a.rpc /\ ~a.rpcFailed /\ ChainRound(a.epoch).closeTimestamp = 0

\* C27: when the round of an epoch is not yet closed, processEpochData ends in
\* not_closed: it returns false, writes no row, and leaves the epoch's failure counter
\* and failed_epoch record unchanged, so the epoch stays eligible for a later pass.
C27_NotClosedReturnsFalseFrameUnchanged ==
    /\ [](FoundNotClosed(att) =>
            (att.result = "false" /\ ~att.committed /\ ~att.failed /\ ~att.detected))
    /\ [][(pc = "fetch" /\ FoundNotClosed(att'))
            => (/\ pc' = "advance"
                /\ UNCHANGED <<tableVars, failedAttempts, failCount, dbConnected>>)]_vars

\* A not-closed answer for an epoch that had failed before: its counter is as it was,
\* and no row of it is in the store.
C27_Witness ==
    /\ FoundNotClosed(att)
    /\ att.result = "false"
    /\ att.priorFailures = 1
    /\ failedAttempts[att.epoch] = 1
    /\ failed_epoch[att.epoch] = 0
    /\ ~\E r \in round : r.epoch = att.epoch

\* ------------------------------------------------- an epoch already stored
\* The round table holds a row of the epoch.
RoundStored(e) == \E r \in round : r.epoch = e

C29_CursorWalksDownByOne ==
    /\ [](att.epoch <= ChainCurrentEpoch - 2 /\ checkEpoch <= ChainCurrentEpoch - 2)
    /\ [][/\ (pc = "getEpoch" /\ pc' = "loop") => checkEpoch' = ChainCurrentEpoch - 2
          /\ (pc = "advance" /\ pc' = "loop") => checkEpoch' = checkEpoch - 1
          /\ (checkEpoch' # checkEpoch /\ pc' # "idle") => pc \in {"getEpoch", "advance"}
          /\ (att'.epoch # att.epoch /\ pc' # "idle") => att'.epoch = checkEpoch
          /\ (att.result = "running" /\ att'.result \in {"true", "false"}) => pc' = "advance"]_vars

\* One run has walked the whole window: the upper epoch failed, the lower one
\* succeeded, and the cursor has reached 0.
C29_Witness ==
    /\ pc = "loop"
    /\ checkEpoch = 0
    /\ isProcessingHistory
    /\ att.epoch = 1
    /\ att.result = "true"
    /\ failCount[MaxEpoch] >= 1
    /\ ~RoundStored(MaxEpoch)
    /\ RoundStored(1)

\* Lemma: the legacy runs (backfill and latest-rounds) start at currentEpoch - 2 as
\* read (0 - 2 when the read failed), walk down by one and never go above it.
LegacyCursorWalksDownByOne ==
    /\ [](/\ v4CheckEpoch <= ChainCurrentEpoch - 2
          /\ \A t \in DOMAIN v4Latest : v4Latest[t].epoch <= ChainCurrentEpoch - 2)
    /\ [][v4CheckEpoch' # v4CheckEpoch =>
             \/ v4Pc = "getEpoch" /\ v4CheckEpoch' \in {ChainCurrentEpoch - 2, 0 - 2}
             \/ v4Pc \in {"afterEpoch", "catch"} /\ v4CheckEpoch' = v4CheckEpoch - 1]_vars

\* ------------------------------------------------- what the failure handler deletes
\* C30: handling a failure of epoch e removes only data of the failed attempt on e: no
\* historical bet row and no claim row that the reconciliation of a different epoch
\* committed (tx_hash names the block range the event lies in) is deleted by the handler.
C30_FailureDeletesOnlyOwnAttempt ==
    [][v4ePc = "failure"
        => (/\ \A c \in claims \ claims' : c.tx_hash.epoch = v4eAtt.epoch
            /\ \A b \in hisbets \ hisbets' : b.tx_hash.epoch = v4eAtt.epoch)]_vars

\* Lemma (legacy crawler): the handler deletes no historical bet row of another range.
LegacyFailureKeepsOtherBets ==
    [][v4ePc = "failure"
        => \A b \in hisbets \ hisbets' : b.tx_hash.epoch = v4eAtt.epoch]_vars

\* Lemma (live HistoricalCrawler): handleEpochFailure touches neither hisbet nor claim.
LiveFailureKeepsBetsAndClaims ==
    [][pc = "failure" => UNCHANGED <<hisbet, claim>>]_vars

\* ------------------------------------------------- the result of a historical bet
\* C31: every historical bet row the reconciler committed carries result WIN if and
\* only if its direction equals the result of the round whose epoch is the row's own
\* epoch field (stated against the stored round row of that epoch), also for a bet
\* event of the fetched block range whose epoch is not the epoch being reconciled.
C31_BetResultMatchesOwnRound ==
    \A b \in DOMAIN hisbet : \A r \in round :
        r.epoch = b.epoch => ((b.result = "WIN") <=> (b.bet_direction = r.result))

\* ------------------------------------------------- teardown
\* C32: after teardown (ConnectionManager.close) has completed, no health-check timer
\* and no reconnect timer fires any more and no new streaming connection is opened.
C32_NothingFiresAfterClose ==
    ~(cmLast.after /\ cmLast.op \in {"healthCheck", "reconnect"})

\* The part of C32 about the reconnect timer alone: close() closes the socket of the
\* current provider, and the "close" handler of that socket arms a reconnect timer.
NoReconnectAfterClose ==
    ~(cmLast.after /\ cmLast.op = "reconnect")

\* ------------------------------------------------- subscriptions after a reconnect
\* C33: after the streaming connection has been lost and a reconnect has succeeded, a
\* bet or round event on the manager's current, open connection is handled by the Live
\* Listener.
C33_EventsHandledAfterReconnect ==
    cmLast.op = "chainEvent" => cmLast.ok

\* ------------------------------------------------- recovery of the datastore status
\* C34: after dbConnected was set to false by a pool error or a failed checkout, a
\* periodic health check performed while the database is reachable sets dbConnected
\* back to true (stated for the state a health check leaves, while the pool exists).
C34_HealthCheckRestoresDbConnected ==
    (cmLast.op = "healthCheck" /\ cmDbPool = "open" /\ cmDbReachable) => cmDbConnected

\* Lemma: once cleared, dbConnected is set again by initialize() only.
DbConnectedReturnsOnlyByInitialize ==
    [][(~cmDbConnected /\ cmDbConnected') => cmLast'.op = "initialize"]_vars

\* ------------------------------------------------- one health-check timer
\* C35: however many times the shared ConnectionManager is initialized, at most one
\* periodic health-check timer is active at any time, and after close() none is.
C35_AtMostOneHealthCheckTimer ==
    /\ Cardinality(cmIntervals) <= 1
    /\ cmClosed => cmIntervals = {}

\* Lemma: close() clears the interval of the last initialize(); the ones that stay are
\* those of earlier calls, whose handles were overwritten.
CloseClearsTheLastInterval ==
    cmClosed => \A i \in cmIntervals : i < cmInitCalls

\* ------------------------------------------------- pooled clients
\* C36: every datastore operation releases the pooled client it checked out exactly
\* once, whether its statements succeed, a statement fails, or the rollback itself
\* fails: across every operation the number of checked-out clients is unchanged.
C36_ClientReleasedExactlyOnce ==
    /\ [](cmCheckedOut = 0)
    /\ [][cmCheckedOut' = cmCheckedOut]_vars

\* A transaction whose statement and whose ROLLBACK both threw has returned.
C36_Witness ==
    /\ cmLast.op = "executeTransaction"
    /\ cmLast.rollbackFailed
    /\ ~cmLast.ok
    /\ cmCheckedOut = 0


\* C37: on a bet event that is not a duplicate the listener runs the heuristic, then
\* persists the provisional row, then publishes the message with the bet and the
\* verdict: whenever a message has been published, the row of its bet is in realbet.
C37_PersistedBeforePublished ==
    \A m \in lsPublished : m.data \in lsRealbet

\* The part of the order the handler keeps: the verdict is there when the message goes
\* out, and the INSERT of a bet is issued only once its message has gone out.
PublishedBeforeInsertIssued ==
    \A row \in lsInFlight \cup lsRealbet : \E m \in lsPublished : m.data = row

\* C38: when the listener observes a bet of a wallet in an epoch in which it has observed
\* a bet of that wallet before, the verdict attached to the later bet is suspicious and
\* carries the repeated-bet flag.
C38_RepeatedBetFlagged ==
    lsLast.seenBefore =>
        /\ lsLast.checked
        /\ lsLast.verdict.isSuspicious
        /\ "Repeated bet" \in lsLast.verdict.flags

\* What the handler does instead: the later bet of the pair never reaches the monitor,
\* and no message carries another flag than the high-frequency one.
LaterBetIsDropped ==
    /\ lsLast.seenBefore => ~lsLast.checked
    /\ \A m \in lsPublished : m.suspicious.flags \subseteq {"High frequency betting"}

\* C39: after every check the wallet's list of recent times is exactly the times of its
\* checks less than 60 seconds before the check, the check itself included, and the
\* high-frequency flag is raised if and only if that list holds more than 10 times.
C39_WindowPrunedAndFlagged ==
    monLast.wallet # "none" =>
        LET history == monHistory[monLast.wallet]
            trailing == {i \in 1..Len(history) : monLast.now - history[i] < 60000}
        IN /\ Len(recentBets[monLast.wallet]) = Cardinality(trailing)
           /\ \A i \in 1..Len(history) :
                  i \in trailing <=>
                      \E j \in 1..Len(recentBets[monLast.wallet]) :
                          recentBets[monLast.wallet][j] = history[i]
           /\ monLast.verdict.isSuspicious <=> Cardinality(trailing) > 10
           /\ ("High frequency betting" \in monLast.verdict.flags) <=> Cardinality(trailing) > 10

\* A check that dropped an old time of the wallet and raised the flag.
C39_Witness ==
    /\ monLast.wallet # "none"
    /\ monLast.verdict.isSuspicious
    /\ Len(recentBets[monLast.wallet]) < Len(monHistory[monLast.wallet])

\* A check of a wallet with exactly 10 times in the window: no flag.
TenInWindowIsNotFlagged ==
    (monLast.wallet # "none" /\ Len(recentBets[monLast.wallet]) = 10) => ~monLast.verdict.isSuspicious


\* ------------------------------------------------- the length of the block search
RECURSIVE Log2Floor(_)
Log2Floor(n) == IF n <= 1 THEN 0 ELSE 1 + Log2Floor(n \div 2)

\* C40: for every head >= 1, every target and every pattern of missing blocks and of
\* timestamps out of order, findBlockByTimestamp ends, and it has fetched at most
\* floor(log2(head)) + 1 midpoint headers.
C40_SearchEndsWithinLogFetches ==
    /\ [](Len(bsSeen) <= Log2Floor(bsHead) + 1)
    /\ <>(bsPc \in {"done", "thrown"})

\* A search of the crawler that returned after floor(log2(head)) + 1 fetches, one of
\* them of a missing block and two of them with the timestamps out of order.
C40_Witness ==
    /\ ~bsLegacy
    /\ bsPc = "done"
    /\ bsHead >= 8
    /\ Len(bsSeen) = Log2Floor(bsHead) + 1
    /\ \E i \in 1..Len(bsSeen) : bsSeen[i][2] = <<>>
    /\ \E i, j \in 1..Len(bsSeen) :
          /\ bsSeen[i][2] # <<>>
          /\ bsSeen[j][2] # <<>>
          /\ bsSeen[i][1] < bsSeen[j][1]
          /\ bsSeen[i][2][1] > bsSeen[j][2][1]

\* Every midpoint is fetched at most once in a search, and every fetch is inside 1..head.
MidpointsFetchedOnce ==
    /\ \A i, j \in 1..Len(bsSeen) : bsSeen[i][1] = bsSeen[j][1] => i = j
    /\ \A i \in 1..Len(bsSeen) : bsSeen[i][1] \in 1..bsHead

====
